---- MODULE Spec2Model ----
(***************************************************************************)
(* Notification scheduling of the water-tracking bot.                      *)
(*                                                                         *)
(* Two dispatchers live in the repository:                                 *)
(*   - bot.py: job_minute_check over the notification_schedule table       *)
(*     (models.py NotificationSchedule, database.py CRUD);                 *)
(*   - jobs/reminder_job.py: check_and_send_reminders over the users and   *)
(*     daily_schedule tables of database/db_manager.py.                    *)
(* Time is counted in whole minutes since 00:00 UTC of day 0.              *)
(* An action is one run of a coroutine between two awaits that suspend:    *)
(* the asyncio event loop runs nothing else in between.                    *)
(***************************************************************************)
EXTENDS Integers, Sequences, FiniteSets, TLC

\* ---------------------------------------------------------------- bounds
NumUsers == 2
NumBotUsers == 2
MaxNow == 8
MaxNotifications == 2
MaxDay == 1
FirstMinute == 479
LastMinute == 492
MaxWatched == 2

\* ------------------------------------------------------- common values
\* Python None, and a present value, as sequences of length 0 and 1
None == <<>>
Some(x) == <<x>>
UserIds == 1..NumUsers
BotUserIds == 1..NumBotUsers

VARIABLES
    now,                    \* the wall clock, minutes (UTC)
    \* ---- bot.py / database.py / models.py
    User,                   \* users table: id -> [notifications_enabled]
    notification_schedule,  \* id -> NotificationSchedule row
    next_id,                \* AUTOINCREMENT counter of notification_schedule
    job_pc,                 \* job_minute_check: "idle" | "await_send"
    pending,                \* rows returned by get_pending_notifications
    pos,                    \* index in pending of the row being sent
    last_run,               \* clock value at the last start of the job
    \* ---- history of job_minute_check
    sends,                  \* id -> number of send_message calls that returned
    raised,                 \* ids whose send_message has raised
    run_sent,               \* ids for which this run called send_message
    skipped,                \* ids marked sent without a send_message call
    \* ---- jobs/reminder_job.py / database/db_manager.py
    users,                  \* users table: user_id -> row
    daily_schedule,         \* daily_schedule table: rows in insertion order
    rem_pc,                 \* check_and_send_reminders: "idle" | "await_send"
    batch,                  \* the rows of get_all_users_with_notifications_enabled
    bi,                     \* index in batch of the user being processed
    local_now,              \* that user's local time, read at the top of the loop body
    existing_schedule,      \* that user's schedule dict
    ti,                     \* index in the reminder times of the entry being sent
    \* ---- history of check_and_send_reminders
    rem_status,             \* "none" | "running" | "done" | "aborted"
    left_out,               \* user ids of the batch whose loop body the run never entered
    last_call,              \* the last get_user_local_time call and its result
    first_found,            \* <<user, date, late>>: the first tick that found no schedule
    await_enabled,          \* notifications_enabled of the addressee when the send began
    watched,                \* an entry <<user, index in the schedule>>, any one
    watched_sends,          \* number of times it was sent today, counted up to 2
    traced,                 \* the users whose switching back on is recorded, fixed
    reenabled,              \* <<user, date>>: switched back on while a schedule of that date was stored
    water_logs,             \* water_logs table: rows in insertion order
    achievements,           \* achievements table: rows in insertion order
    \* ---- handlers/registration_handler.py: the conversation of one chat
    conv_state,             \* the state the ConversationHandler keeps, "END" outside
    context_user_data,      \* context.user_data: key -> value
    \* ---- a call of a function of the repository on its own
    fn_args,                \* the arguments of the call
    fn_result,              \* what it returned, None before it returns
    second_run              \* a second check_and_send_reminders running at the same time

botVars == <<User, notification_schedule, next_id, job_pc, pending, pos,
             last_run, sends, raised, run_sent, skipped>>

remVars == <<users, daily_schedule, rem_pc, batch, bi, local_now,
             existing_schedule, ti, rem_status, left_out,
             last_call, first_found, await_enabled, watched, watched_sends>>

extVars == <<traced, reenabled, water_logs, achievements, conv_state, context_user_data, fn_args, fn_result, second_run>>

vars == <<now, botVars, remVars, extVars>>

\* ------------------------------------------------------------------------
\* bot.py dispatcher: database.py CRUD
\* ------------------------------------------------------------------------

\* The daily reminder instants of a user, as minutes of the modelled day;
\* the regenerated schedule keeps those that are still ahead of the clock.
ReminderInstants == {1, 2}

\* Ascending sequence of the elements of a finite set of integers.
RECURSIVE SortedSeq(_)
SortedSeq(S) ==
    IF S = {} THEN <<>>
    ELSE LET m == CHOOSE x \in S : \A y \in S : x <= y
         IN <<m>> \o SortedSeq(S \ {m})

\* database.get_user: the row, or None
get_user(tbl, user_id) ==
    IF user_id \in DOMAIN tbl THEN Some(tbl[user_id]) ELSE None

\* database.update_user(user_id, notifications_enabled=value)
update_user(tbl, user_id, value) ==
    IF user_id \in DOMAIN tbl
    THEN [tbl EXCEPT ![user_id].notifications_enabled = value]
    ELSE tbl

\* database.schedule_notification: INSERT of one row, is_sent defaults to False
schedule_notification(ns, id, user_id, notification_type, scheduled_time) ==
    [n \in DOMAIN ns \cup {id} |->
        IF n = id
        THEN [user_id |-> user_id,
              notification_type |-> notification_type,
              scheduled_time |-> scheduled_time,
              is_sent |-> FALSE,
              sent_at |-> None]
        ELSE ns[n]]

\* database.get_pending_notifications: is_sent == False and scheduled_time <= utcnow()
get_pending_notifications(ns, t) ==
    {n \in DOMAIN ns : ~ns[n].is_sent /\ ns[n].scheduled_time <= t}

\* database.mark_notification_sent: UPDATE ... WHERE id = notification_id
mark_notification_sent_dropped(ns, notification_id, t) == ns

mark_notification_sent_only(ns, notification_id, t) ==
    [n \in DOMAIN ns |->
        IF n = notification_id
        THEN [ns[n] EXCEPT !.is_sent = TRUE, !.sent_at = Some(t)]
        ELSE [ns[n] EXCEPT !.is_sent = FALSE]]

mark_notification_sent(ns, notification_id, t) ==
    [n \in DOMAIN ns |->
        IF n = notification_id
        THEN [ns[n] EXCEPT !.is_sent = TRUE, !.sent_at = Some(t)]
        ELSE ns[n]]

\* delete_future_notifications(user_id): the user's rows that are not sent
\* and lie ahead of the clock are removed.
delete_future_notifications(ns, user_id, t) ==
    LET keep == {n \in DOMAIN ns :
                    ~(ns[n].user_id = user_id /\ ~ns[n].is_sent
                      /\ ns[n].scheduled_time > t)}
    IN [n \in keep |-> ns[n]]

\* Insert one row per instant of the sequence, with consecutive ids.
RECURSIVE schedule_all(_, _, _, _)
schedule_all(ns, id, user_id, instants) ==
    IF instants = <<>> THEN ns
    ELSE schedule_all(
            schedule_notification(ns, id, user_id, "smart_reminder", Head(instants)),
            id + 1, user_id, Tail(instants))

\* reschedule_smart_notifications(user_id): drop the not-yet-sent rest of the
\* schedule and, for a user with notifications enabled, store the remaining
\* reminders of the day.
RemainingInstants(t) == {i \in ReminderInstants : i > t}

reschedule_smart_notifications(ns, tbl, id, user_id, t) ==
    LET cleared == delete_future_notifications(ns, user_id, t)
        user == get_user(tbl, user_id)
    IN IF user = None \/ ~user[1].notifications_enabled
       THEN cleared
       ELSE schedule_all(cleared, id, user_id, SortedSeq(RemainingInstants(t)))

\* ------------------------------------------------------------------------
\* bot.py: job_minute_check
\* ------------------------------------------------------------------------

\* The for-loop of job_minute_check from position i of the pending list up
\* to the next await of send_message: a row whose user is missing or has
\* notifications disabled is marked sent and skipped.  The result is the
\* table, the position reached (Len + 1: the loop is over) and the ids
\* marked on the way.
RECURSIVE job_loop_marks_all(_, _, _, _, _)
job_loop_marks_all(ns, tbl, pend, i, t) ==
    IF i > Len(pend)
    THEN [ns |-> ns, pos |-> i, skipped |-> {}]
    ELSE LET notif == pend[i]
             user == get_user(tbl, notif.user_id)
             r == job_loop_marks_all(mark_notification_sent(ns, notif.id, t),
                                     tbl, pend, i + 1, t)
         IN IF user = None \/ ~user[1].notifications_enabled
            THEN [r EXCEPT !.skipped = @ \cup {notif.id}]
            ELSE [ns |-> mark_notification_sent(ns, notif.id, t),
                  pos |-> i, skipped |-> {notif.id}]

RECURSIVE job_loop(_, _, _, _, _)
job_loop(ns, tbl, pend, i, t) ==
    IF i > Len(pend)
    THEN [ns |-> ns, pos |-> i, skipped |-> {}]
    ELSE LET notif == pend[i]
             user == get_user(tbl, notif.user_id)
             r == job_loop(mark_notification_sent(ns, notif.id, t),
                           tbl, pend, i + 1, t)
         IN IF user = None \/ ~user[1].notifications_enabled
            THEN [r EXCEPT !.skipped = @ \cup {notif.id}]
            ELSE [ns |-> ns, pos |-> i, skipped |-> {}]

\* The rows of the query as the job holds them: detached objects with the
\* id and user_id they had when the query ran, in id order.
Snapshot(ns, ids) ==
    LET s == SortedSeq(ids)
    IN [k \in 1..Len(s) |-> [id |-> s[k], user_id |-> ns[s[k]].user_id]]

\* The state the job is left in by a run of the loop that ended in r.
Resume(r, pend, sent_before) ==
    /\ notification_schedule' = r.ns
    /\ pos' = r.pos
    /\ job_pc' = IF r.pos > Len(pend) THEN "idle" ELSE "await_send"
    /\ run_sent' = IF r.pos > Len(pend) THEN sent_before
                   ELSE sent_before \cup {pend[r.pos].id}
    /\ skipped' = skipped \cup r.skipped

\* job_minute_check is started by the job queue (run_repeating, interval=60,
\* one instance at a time) and runs to its first await.
job_minute_check ==
    /\ job_pc = "idle"
    /\ now > last_run
    /\ last_run' = now
    /\ LET pend == Snapshot(notification_schedule,
                       get_pending_notifications(notification_schedule, now))
       IN /\ pending' = pend
          /\ Resume(job_loop(notification_schedule, User, pend, 1, now),
                    pend, {})
    /\ UNCHANGED <<now, User, next_id, sends, raised, remVars, extVars>>

\* await context.bot.send_message(...) returns: the row is marked sent and
\* the loop goes on.
send_message_returns ==
    /\ job_pc = "await_send"
    /\ LET notif == pending[pos]
           marked == mark_notification_sent(notification_schedule, notif.id, now)
       IN /\ sends' = [sends EXCEPT ![notif.id] = @ + 1]
          /\ Resume(job_loop(marked, User, pending, pos + 1, now),
                    pending, run_sent)
    /\ UNCHANGED <<now, User, next_id, pending, last_run, raised, remVars, extVars>>

\* await context.bot.send_message(...) raises: except Exception logs, the
\* loop goes on with the next row.
send_message_raises_marks ==
    /\ job_pc = "await_send"
    /\ LET notif == pending[pos]
           marked == mark_notification_sent(notification_schedule, notif.id, now)
       IN /\ raised' = raised \cup {notif.id}
          /\ Resume(job_loop(marked, User, pending, pos + 1, now),
                    pending, run_sent)
    /\ UNCHANGED <<now, User, next_id, pending, last_run, sends, remVars, extVars>>

send_message_raises ==
    /\ job_pc = "await_send"
    /\ LET notif == pending[pos]
       IN /\ raised' = raised \cup {notif.id}
          /\ Resume(job_loop(notification_schedule, User, pending, pos + 1, now),
                    pending, run_sent)
    /\ UNCHANGED <<now, User, next_id, pending, last_run, sends, remVars, extVars>>

\* ------------------------------------------------------------------------
\* bot.py: handlers
\* ------------------------------------------------------------------------

\* Number of rows a reschedule at time t inserts for an enabled user.
NewRows(tbl, user_id, t) ==
    IF tbl[user_id].notifications_enabled
    THEN Cardinality(RemainingInstants(t)) ELSE 0

\* cb_toggle_notifications up to its first await.
cb_toggle_notifications(user_id) ==
    LET user == get_user(User, user_id)
        new_state == ~user[1].notifications_enabled
        tbl == update_user(User, user_id, new_state)
    IN /\ user # None
       /\ next_id + NewRows(tbl, user_id, now) <= MaxNotifications + 1
       /\ User' = tbl
       /\ notification_schedule' =
            IF new_state
            THEN reschedule_smart_notifications(notification_schedule, tbl,
                                                next_id, user_id, now)
            ELSE delete_future_notifications(notification_schedule, user_id, now)
       /\ next_id' = IF new_state THEN next_id + NewRows(tbl, user_id, now)
                     ELSE next_id
       /\ sends' = [n \in 1..(next_id' - 1) |->
                        IF n \in DOMAIN sends THEN sends[n] ELSE 0]
       /\ UNCHANGED <<now, job_pc, pending, pos, last_run, raised, run_sent,
                      skipped, remVars, extVars>>

\* The handlers that store a profile change or a drink and then call
\* reschedule_smart_notifications(user_id) before their first await
\* (process_edit_weight, cb_update_gender_activity, cb_set_timezone, ...).
profile_changed(user_id) ==
    /\ next_id + NewRows(User, user_id, now) <= MaxNotifications + 1
    /\ notification_schedule' =
            reschedule_smart_notifications(notification_schedule, User,
                                           next_id, user_id, now)
    /\ next_id' = next_id + NewRows(User, user_id, now)
    /\ sends' = [n \in 1..(next_id' - 1) |->
                    IF n \in DOMAIN sends THEN sends[n] ELSE 0]
    /\ UNCHANGED <<now, User, job_pc, pending, pos, last_run, raised, run_sent,
                   skipped, remVars, extVars>>

\* A minute passes.
minute_passes ==
    /\ now < MaxNow
    /\ now' = now + 1
    /\ UNCHANGED <<botVars, remVars, extVars>>

\* The period of check_and_send_reminders, in minutes ("every 5 minutes").
TickPeriod == 5

\* No second invocation of check_and_send_reminders is running. stored is
\* history: the <<user_id, date_local>> keys whose row the running second
\* invocation has stored while the first one was suspended in send_message.
NoRun ==
    [pc |-> "idle", batch |-> <<>>, bi |-> 1, local_now |-> None,
     existing_schedule |-> None, ti |-> 0, stored |-> {}]

\* The tables and the job of jobs/reminder_job.py, not started.
ExtIdle ==
    /\ traced = {}
    /\ reenabled = {}
    /\ water_logs = <<>>
    /\ achievements = <<>>
    /\ conv_state = "END"
    /\ context_user_data = <<>>
    /\ second_run = NoRun
    /\ fn_args = None
    /\ fn_result = None

RemIdle ==
    /\ daily_schedule = <<>>
    /\ rem_pc = "idle"
    /\ batch = <<>>
    /\ bi = 1
    /\ local_now = None
    /\ existing_schedule = None
    /\ ti = 0
    /\ rem_status = "none"
    /\ left_out = {}
    /\ last_call = None
    /\ first_found = {}
    /\ await_enabled = TRUE
    /\ watched_sends = 0

InitBot ==
    /\ now = 0
    /\ users = <<>>
    /\ watched = <<1, 1>>
    /\ RemIdle
    /\ ExtIdle
    /\ User = [u \in BotUserIds |-> [notifications_enabled |-> TRUE]]
    /\ notification_schedule = <<>>
    /\ next_id = 1
    /\ job_pc = "idle"
    /\ pending = <<>>
    /\ pos = 1
    /\ last_run = -1
    /\ sends = <<>>
    /\ raised = {}
    /\ run_sent = {}
    /\ skipped = {}

NextBot ==
    \/ job_minute_check
    \/ send_message_returns
    \/ send_message_raises
    \/ \E u \in BotUserIds : cb_toggle_notifications(u)
    \/ \E u \in BotUserIds : profile_changed(u)
    \/ minute_passes

SpecBot == InitBot /\ [][NextBot]_vars

\* ------------------------------------------------------------------------
\* Properties of job_minute_check
\* ------------------------------------------------------------------------

\* The due-tolerance window of the design, in minutes.
ToleranceMinutes == 5

Rows == DOMAIN notification_schedule

\* The step in which the awaited send_message of the current row ends.
SendEnds == job_pc = "await_send" /\ <<pos, job_pc>>' # <<pos, job_pc>>
SendRaised == SendEnds /\ sends' = sends

\* C2: once send_message has returned for a row, the row is marked sent in
\* the same step, before anything else runs, and no later run of the job
\* sends it again.
C2_MarkedWithDelivery ==
    \A n \in DOMAIN sends :
        sends[n] >= 1 => /\ n \in Rows
                         /\ notification_schedule[n].is_sent
                         /\ sends[n] = 1

C2_Witness ==
    \E n \in Rows : sends[n] = 1 /\ last_run > notification_schedule[n].sent_at[1]

\* C6 as stated: a notification is never delivered later than the
\* tolerance window after its scheduled time.
C6_NoLateDelivery ==
    \A n \in Rows :
        sends[n] >= 1 =>
            notification_schedule[n].sent_at[1]
                <= notification_schedule[n].scheduled_time + ToleranceMinutes

C9_SentIsMonotone ==
    [][\A n \in Rows \cap DOMAIN notification_schedule' :
          notification_schedule[n].is_sent => notification_schedule'[n].is_sent]_vars

C9_Witness ==
    \E n \in Rows :
        /\ notification_schedule[n].is_sent
        /\ \E m \in Rows : m > n /\ ~notification_schedule[m].is_sent
        /\ last_run > notification_schedule[n].sent_at[1]

\* ------------------------------------------------------------------------
\* utils/time_utils.py, services/*.py: pure functions
\* ------------------------------------------------------------------------

\* A "HH:MM" string is the pair <<HH, MM>>.
\* map(int, s.split(':'))
SplitTime(s) == <<s[1], s[2]>>

\* f"{h:02d}:{m:02d}"
FormatTime(h, m) == <<h, m>>

\* The time zone database: UTC offsets, in minutes, of the names it knows.
ZoneTable == [name \in {"UTC", "Europe/Moscow"} |->
                 IF name = "UTC" THEN 0 ELSE 180]

\* zoneinfo.ZoneInfo(key): the zone, or None for ZoneInfoNotFoundError
ZoneInfo(key) ==
    IF key \in DOMAIN ZoneTable THEN Some(ZoneTable[key]) ELSE None

\* datetime.now(tz) at clock value t for a zone offset
LocalTime(t, offset) ==
    [date |-> (t + offset) \div 1440,
     hour |-> ((t + offset) % 1440) \div 60,
     minute |-> (t + offset) % 60]

\* utils.time_utils.get_user_local_time (the second definition of the
\* module, which is the one in effect): None stands for the exception.
get_user_local_time(timezone_str, t) ==
    LET tz == ZoneInfo(timezone_str)
    IN IF tz = None THEN None ELSE Some(LocalTime(t, tz[1]))

Min(a, b) == IF a <= b THEN a ELSE b
Max(a, b) == IF a >= b THEN a ELSE b

\* ---- Python floats (IEEE 754 binary64), as far as calculate_norm and
\* generate_reminder_schedule use them.
\* A natural number of any size is the sequence of its digits in base
\* LimbBase, least significant first; a positive float is [m, e] with
\* 2^52 <= m < 2^53, standing for m * 2^e.
LimbBits == 12
LimbBase == 2^LimbBits
MantissaBits == 53

RECURSIVE BigNorm(_)
BigNorm(a) ==
    IF a = <<>> THEN <<>>
    ELSE IF a[Len(a)] = 0 THEN BigNorm(SubSeq(a, 1, Len(a) - 1))
    ELSE a

RECURSIVE BigFromInt(_)
BigFromInt(n) ==
    IF n = 0 THEN <<>> ELSE <<n % LimbBase>> \o BigFromInt(n \div LimbBase)

RECURSIVE BigToInt(_)
BigToInt(a) ==
    IF a = <<>> THEN 0 ELSE a[1] + LimbBase * BigToInt(Tail(a))

RECURSIVE BigAdd(_, _, _)
BigAdd(a, b, carry) ==
    IF a = <<>> /\ b = <<>> THEN BigFromInt(carry)
    ELSE LET x == IF a = <<>> THEN 0 ELSE a[1]
             y == IF b = <<>> THEN 0 ELSE b[1]
             v == x + y + carry
         IN <<v % LimbBase>>
            \o BigAdd(IF a = <<>> THEN <<>> ELSE Tail(a),
                      IF b = <<>> THEN <<>> ELSE Tail(b), v \div LimbBase)

\* a * k + carry for a digit-sized k
RECURSIVE BigMulSmall(_, _, _)
BigMulSmall(a, k, carry) ==
    IF a = <<>> THEN BigFromInt(carry)
    ELSE LET v == a[1] * k + carry
         IN <<v % LimbBase>> \o BigMulSmall(Tail(a), k, v \div LimbBase)

RECURSIVE BigMul(_, _)
BigMul(a, b) ==
    IF a = <<>> THEN <<>>
    ELSE LET high == BigMul(Tail(a), b)
         IN BigNorm(BigAdd(BigMulSmall(b, a[1], 0),
                           IF high = <<>> THEN <<>> ELSE <<0>> \o high, 0))

\* Quotient and remainder of a by a small k
RECURSIVE BigDivRem(_, _)
BigDivRem(a, k) ==
    IF a = <<>> THEN [q |-> <<>>, r |-> 0]
    ELSE LET high == BigDivRem(Tail(a), k)
             cur == high.r * LimbBase + a[1]
         IN [q |-> <<cur \div k>> \o high.q, r |-> cur % k]

RECURSIVE BitLenLimb(_)
BitLenLimb(v) == IF v = 0 THEN 0 ELSE 1 + BitLenLimb(v \div 2)

BitLen(a) ==
    LET n == BigNorm(a)
    IN IF n = <<>> THEN 0
       ELSE (Len(n) - 1) * LimbBits + BitLenLimb(n[Len(n)])

\* a * 2^s
ShiftLeft(a, s) ==
    BigNorm([i \in 1..(s \div LimbBits) |-> 0]
            \o BigMulSmall(a, 2^(s % LimbBits), 0))

\* a \div 2^s, and whether a nonzero remainder was dropped
ShiftRightSticky(a, s) ==
    LET n == BigNorm(a)
        k == s \div LimbBits
        dropped == SubSeq(n, 1, Min(k, Len(n)))
        d == BigDivRem(SubSeq(n, k + 1, Len(n)), 2^(s % LimbBits))
    IN [q |-> BigNorm(d.q),
        sticky |-> d.r # 0 \/ \E i \in DOMAIN dropped : dropped[i] # 0]

\* m * 2^e for a rounded m < 2^54: one more halving when the rounding has
\* carried into bit 54 (m is then 2^53, so nothing is lost)
Renormalise(m, e) ==
    IF BitLen(m) > MantissaBits
    THEN [m |-> BigNorm(BigDivRem(m, 2).q), e |-> e + 1]
    ELSE [m |-> m, e |-> e]

\* half.q plus the half unit half.r, to nearest, ties to even; sticky says
\* that a fraction below the half unit was dropped before
RoundHalfEven(half, e, sticky) ==
    Renormalise(IF half.r = 1 /\ (sticky \/ half.q[1] % 2 = 1)
                THEN BigAdd(BigNorm(half.q), <<>>, 1)
                ELSE BigNorm(half.q), e)

\* The float nearest to p * 2^e for a p of len bits
RoundToLen(p, e, sticky, len) ==
    IF len <= MantissaBits
    THEN [m |-> ShiftLeft(p, MantissaBits - len),
          e |-> e - (MantissaBits - len)]
    ELSE RoundHalfEven(
             BigDivRem(ShiftRightSticky(p, len - MantissaBits - 1).q, 2),
             e + (len - MantissaBits),
             sticky \/ ShiftRightSticky(p, len - MantissaBits - 1).sticky)

\* The float nearest to p * 2^e (plus a fraction below one unit of p when
\* sticky holds), ties to even.
RoundBig(p, e, sticky) == RoundToLen(p, e, sticky, BitLen(p))

\* float(n) for an int n > 0
FFromInt(n) == RoundBig(BigFromInt(n), 0, FALSE)

\* x * y
FMul(x, y) == RoundBig(BigMul(x.m, y.m), x.e + y.e, FALSE)

\* x / k for an int k, 0 < k < 2^19
FDivInt(x, k) ==
    LET d == BigDivRem(ShiftLeft(x.m, 2 * LimbBits), k)
    IN RoundBig(BigNorm(d.q), x.e - 2 * LimbBits, d.r # 0)

\* x + y
FAdd(x, y) ==
    LET hi == IF x.e >= y.e THEN x ELSE y
        lo == IF x.e >= y.e THEN y ELSE x
    IN RoundBig(BigAdd(ShiftLeft(hi.m, hi.e - lo.e), lo.m, 0), lo.e, FALSE)

\* math.ceil(x)
FCeil(x) ==
    IF x.e >= 0 THEN BigToInt(ShiftLeft(x.m, x.e))
    ELSE LET sh == ShiftRightSticky(x.m, -x.e)
         IN BigToInt(sh.q) + (IF sh.sticky THEN 1 ELSE 0)

\* services.water_calculator.calculate_norm; temperature is None or Some(t).
\* The keys of activity_map are the Russian words for low, medium, high;
\* ActivityMap gives the coefficient in tenths.
ActivityMap(activity) ==
    IF activity = "nizkaya" THEN 10
    ELSE IF activity = "srednyaya" THEN 11
    ELSE IF activity = "vysokaya" THEN 12
    ELSE 10

\* bonus_percent without the min(30, ...)
BonusPercentUncapped(temperature) ==
    IF temperature # None /\ temperature[1] > 20
    THEN ((temperature[1] - 20) \div 5) * 5
    ELSE 0

\* bonus_percent, 0 when the temperature is None or not above 20
BonusPercent(temperature) ==
    IF temperature # None /\ temperature[1] > 20
    THEN Min(30, ((temperature[1] - 20) \div 5) * 5)
    ELSE 0

\* norm_ml before the rounding to 250 ml, as a float
NormFloat(weight, gender, activity, temperature) ==
    LET base_ml == weight * 30
        gender_coef == IF gender = "male" THEN FDivInt(FFromInt(11), 10)
                       ELSE FFromInt(1)
        activity_coef == FDivInt(FFromInt(ActivityMap(activity)), 10)
        norm_ml == FMul(FMul(FFromInt(base_ml), gender_coef), activity_coef)
        bonus == IF BonusPercent(temperature) = 0 THEN FFromInt(1)
                 ELSE FAdd(FFromInt(1),
                           FDivInt(FFromInt(BonusPercent(temperature)), 100))
    IN IF temperature # None /\ temperature[1] > 20
       THEN FMul(norm_ml, bonus)
       ELSE norm_ml

calculate_norm(weight, gender, activity, temperature) ==
    FCeil(FDivInt(NormFloat(weight, gender, activity, temperature), 250)) * 250

\* The integer nearest to the exact fraction num / den, ties to even: what
\* round(i * interval) is when the float interval and the float product
\* are exact.
Round(num, den) ==
    LET q == num \div den
        r == num % den
    IN IF 2 * r < den THEN q
       ELSE IF 2 * r > den THEN q + 1
       ELSE IF q % 2 = 0 THEN q ELSE q + 1

\* half.q plus the half unit half.r as an int, to nearest, ties to even
RoundInt(half, sticky) ==
    BigToInt(BigNorm(half.q))
        + (IF /\ half.r = 1
              /\ sticky \/ (half.q # <<>> /\ half.q[1] % 2 = 1)
           THEN 1 ELSE 0)

\* round(x) of Python 3 for a float x > 0
FRound(x) ==
    IF x.e >= 0 THEN BigToInt(ShiftLeft(x.m, x.e))
    ELSE RoundInt(BigDivRem(ShiftRightSticky(x.m, -x.e - 1).q, 2),
                  ShiftRightSticky(x.m, -x.e - 1).sticky)

\* int(x) of Python for a float x > 0
FTrunc(x) ==
    IF x.e >= 0 THEN BigToInt(ShiftLeft(x.m, x.e))
    ELSE BigToInt(BigNorm(ShiftRightSticky(x.m, -x.e).q))

\* "int(i * interval)": the offset cut off instead of rounded
TruncatedOffset(i, interval) ==
    IF i = 0 THEN 0 ELSE FTrunc(FMul(FFromInt(i), interval))

\* "round(i * interval)" for the int i >= 0 and the float interval
RoundedOffset(i, interval) ==
    IF i = 0 THEN 0 ELSE FRound(FMul(FFromInt(i), interval))

\* The for-loop without "total_min = total_min % (24 * 60)"
ScheduleTimes_unreduced(start_minutes, total_glasses, interval) ==
    [k \in 1..total_glasses |->
        LET total_min == start_minutes + RoundedOffset(k - 1, interval)
        IN FormatTime(total_min \div 60, total_min % 60)]

\* The for-loop of generate_reminder_schedule over range(total_glasses)
ScheduleTimes(start_minutes, total_glasses, interval) ==
    [k \in 1..total_glasses |->
        LET total_min == (start_minutes + RoundedOffset(k - 1, interval))
                            % (24 * 60)
        IN FormatTime(total_min \div 60, total_min % 60)]

\* generate_reminder_schedule that reads the clock: the entries before the
\* present minute of the day are left out
generate_reminder_schedule_remaining(notification_start, notification_end, total_glasses) ==
    IF total_glasses <= 1 THEN <<notification_start>>
    ELSE LET start == SplitTime(notification_start)
             end == SplitTime(notification_end)
             start_minutes == start[1] * 60 + start[2]
             end_raw == end[1] * 60 + end[2]
             end_minutes == IF end_raw <= start_minutes
                            THEN end_raw + 24 * 60 ELSE end_raw
             remains(hm) == hm[1] * 60 + hm[2] >= now % (24 * 60)
         IN SelectSeq(ScheduleTimes(start_minutes, total_glasses,
                          FDivInt(FFromInt(end_minutes - start_minutes),
                                  total_glasses - 1)), remains)

\* generate_reminder_schedule with the end time returned for a single glass
generate_reminder_schedule_end(notification_start, notification_end, total_glasses) ==
    IF total_glasses <= 1 THEN <<notification_end>>
    ELSE LET start == SplitTime(notification_start)
             end == SplitTime(notification_end)
             start_minutes == start[1] * 60 + start[2]
             end_raw == end[1] * 60 + end[2]
             end_minutes == IF end_raw <= start_minutes
                            THEN end_raw + 24 * 60 ELSE end_raw
         IN ScheduleTimes(start_minutes, total_glasses,
                          FDivInt(FFromInt(end_minutes - start_minutes),
                                  total_glasses - 1))

\* generate_reminder_schedule with the window divided by total_glasses
generate_reminder_schedule_by_count(notification_start, notification_end, total_glasses) ==
    IF total_glasses <= 1 THEN <<notification_start>>
    ELSE LET start == SplitTime(notification_start)
             end == SplitTime(notification_end)
             start_minutes == start[1] * 60 + start[2]
             end_raw == end[1] * 60 + end[2]
             end_minutes == IF end_raw <= start_minutes
                            THEN end_raw + 24 * 60 ELSE end_raw
         IN ScheduleTimes(start_minutes, total_glasses,
                          FDivInt(FFromInt(end_minutes - start_minutes),
                                  total_glasses))

\* services.scheduler_service.generate_reminder_schedule
generate_reminder_schedule(notification_start, notification_end, total_glasses) ==
    IF total_glasses <= 1 THEN <<notification_start>>
    ELSE LET start == SplitTime(notification_start)
             end == SplitTime(notification_end)
             start_minutes == start[1] * 60 + start[2]
             end_raw == end[1] * 60 + end[2]
             end_minutes == IF end_raw <= start_minutes
                            THEN end_raw + 24 * 60 ELSE end_raw
         IN ScheduleTimes(start_minutes, total_glasses,
                          FDivInt(FFromInt(end_minutes - start_minutes),
                                  total_glasses - 1))

\* get_current_temp that falls back on 25 degrees when the lookup fails
get_current_temp_default(city, lookup) ==
    IF city = None THEN None
    ELSE IF lookup = None THEN Some(25) ELSE lookup

\* services.weather_service.get_current_temp: None without a city, else
\* what the lookup gives (None when it fails).
get_current_temp(city, lookup) ==
    IF city = None THEN None ELSE lookup

\* ------------------------------------------------------------------------
\* database/db_manager.py
\* ------------------------------------------------------------------------

\* json.dumps / json.loads of the list of reminder times
json_dumps(x) == [json |-> x]
json_loads(text) == text.json

\* DatabaseManager.get_all_users_with_notifications_enabled:
\* SELECT * FROM users WHERE notifications_enabled = 1, in user_id order
get_all_users_with_notifications_enabled(tbl) ==
    LET ids == SortedSeq({u \in DOMAIN tbl : tbl[u].notifications_enabled})
    IN [k \in 1..Len(ids) |-> tbl[ids[k]]]

\* DatabaseManager.update_notifications_enabled
update_notifications_enabled(tbl, user_id, enabled) ==
    IF user_id \in DOMAIN tbl
    THEN [tbl EXCEPT ![user_id].notifications_enabled = enabled]
    ELSE tbl

\* DatabaseManager.get_daily_schedule: fetchone() of the matching rows
get_daily_schedule_any_date(ds, user_id, local_date) ==
    LET hits == {k \in 1..Len(ds) : ds[k].user_id = user_id}
    IN IF hits = {} THEN None
       ELSE Some(ds[CHOOSE k \in hits : \A j \in hits : k <= j])

get_daily_schedule_none(ds, user_id, local_date) == None

get_daily_schedule(ds, user_id, local_date) ==
    LET hits == {k \in 1..Len(ds) :
                    ds[k].user_id = user_id /\ ds[k].date_local = local_date}
    IN IF hits = {} THEN None
       ELSE Some(ds[CHOOSE k \in hits : \A j \in hits : k <= j])

\* DatabaseManager.save_daily_schedule: a plain INSERT
save_daily_schedule(ds, user_id, date_local, goal_ml, reminder_times) ==
    Append(ds, [user_id |-> user_id,
                date_local |-> date_local,
                goal_ml |-> goal_ml,
                reminder_times |-> json_dumps(reminder_times)])

\* ------------------------------------------------------------------------
\* jobs/reminder_job.py: check_and_send_reminders
\* ------------------------------------------------------------------------

\* (current_hour - h) * 60 + (current_minute - m)
time_diff(local, hm) ==
    (local.hour - SplitTime(hm)[1]) * 60 + (local.minute - SplitTime(hm)[2])

\* "if time_diff == 0": an entry is due only in its own minute
InWindow_exact(local, hm) == time_diff(local, hm) = 0

\* "if 0 <= time_diff <= 5"
InWindow(local, hm) == 0 <= time_diff(local, hm) /\ time_diff(local, hm) <= 5

\* The for-loop over the reminder times from index k: the index of the next
\* entry for which send_reminder is awaited, 0 when the loop ends.
RECURSIVE next_due(_, _, _)
next_due(times, k, local) ==
    IF k > Len(times) THEN 0
    ELSE IF InWindow(local, times[k]) THEN k
    ELSE next_due(times, k + 1, local)

\* Glasses of 200 ml instead of 250 ml
glass_count_200(norm_ml) == Max(1, (norm_ml + 199) \div 200)

\* "glasses = (norm_ml + 249) // 250; glasses = max(1, glasses)"
glass_count(norm_ml) == Max(1, (norm_ml + 249) \div 250)

\* The for-loop over the users from index i up to the next await of
\* send_message, at clock value t and with the weather lookup giving temp.
\* status "await_send": suspended in send_reminder for entry ti of user bi;
\* "done": the loop is over; "aborted": an exception left the coroutine.
RECURSIVE user_loop(_, _, _, _, _)

\* The body of the loop for users_list[i], whose local time is call[1];
\* norm_ml is what calculate_norm gives for the user.
user_loop_body(ds, users_list, i, t, temp, call, norm_ml) ==
    LET user == users_list[i]
        user_id == user.user_id
        this_call == Some([timezone |-> user.timezone, raised |-> FALSE])
        local == call[1]
        found == get_daily_schedule(ds, user_id, local.date)
        start_diff == time_diff(local, user.notification_start)
        generate == found = None /\ 0 <= start_diff /\ start_diff <= 5
        glasses == glass_count(norm_ml)
        reminder_times == generate_reminder_schedule(user.notification_start,
                              user.notification_end, glasses)
        ds2 == IF generate
               THEN save_daily_schedule(ds, user_id, local.date, norm_ml,
                                        reminder_times)
               ELSE ds
        existing ==
            IF generate
            THEN Some([reminder_times |-> json_dumps(reminder_times),
                       goal_ml |-> norm_ml])
            ELSE IF found # None
            THEN Some([reminder_times |-> found[1].reminder_times,
                       goal_ml |-> found[1].goal_ml])
            ELSE None
        k == IF existing = None THEN 0
             ELSE next_due(json_loads(existing[1].reminder_times), 1, local)
        late == IF found = None
                THEN {<<user_id, local.date, start_diff > 5>>} ELSE {}
        rest == user_loop(ds2, users_list, i + 1, t, temp)
    IN
    IF k > 0
    THEN [status |-> "await_send", ds |-> ds2, bi |-> i, local_now |-> call,
          existing_schedule |-> existing, ti |-> k, left_out |-> {},
          last_call |-> this_call, late |-> late]
    ELSE [rest EXCEPT !.last_call = IF @ = None THEN this_call ELSE @,
                      !.late = @ \cup late]

user_loop(ds, users_list, i, t, temp) ==
    IF i > Len(users_list)
    THEN [status |-> "done", ds |-> ds, bi |-> i, local_now |-> None,
          existing_schedule |-> None, ti |-> 0, left_out |-> {},
          last_call |-> None, late |-> {}]
    ELSE
    LET user == users_list[i]
        user_id == user.user_id
        call == get_user_local_time(user.timezone, t)
        this_call == Some([timezone |-> user.timezone, raised |-> call = None])
    IN
    IF call = None
    THEN [status |-> "aborted", ds |-> ds, bi |-> i, local_now |-> None,
          existing_schedule |-> None, ti |-> 0,
          left_out |-> {users_list[j].user_id : j \in (i + 1)..Len(users_list)},
          last_call |-> this_call, late |-> {}]
    ELSE
    user_loop_body(ds, users_list, i, t, temp, call,
                   calculate_norm(user.weight, user.gender,
                                  user.activity_level,
                                  get_current_temp(user.city, temp)))

\* The state the job is left in by a run of the loops that ended in r.
RemResume(r, users_list) ==
    /\ daily_schedule' = r.ds
    /\ bi' = r.bi
    /\ local_now' = r.local_now
    /\ existing_schedule' = r.existing_schedule
    /\ ti' = r.ti
    /\ rem_pc' = IF r.status = "await_send" THEN "await_send" ELSE "idle"
    /\ rem_status' = IF r.status = "await_send" THEN "running" ELSE r.status
    /\ left_out' = r.left_out
    /\ batch' = IF r.status = "await_send" THEN users_list ELSE <<>>
    /\ last_call' = IF r.last_call = None THEN last_call ELSE r.last_call
    /\ first_found' = first_found \cup
          {e \in r.late : \A f \in first_found : <<f[1], f[2]>> # <<e[1], e[2]>>}
    /\ await_enabled' =
          IF r.status = "await_send"
          THEN users[users_list[r.bi].user_id].notifications_enabled
          ELSE TRUE

\* What the weather lookup can give: nothing, or a temperature.
Temperatures == {None, Some(31)}

\* check_and_send_reminders is started by the job queue at clock value t
\* and runs to its first await of send_message.
StartJobWith(t, temp) ==
    /\ rem_pc = "idle"
    /\ now' = t
    /\ LET users_list == get_all_users_with_notifications_enabled(users)
       IN RemResume(user_loop(daily_schedule, users_list, 1, t, temp),
                    users_list)
    /\ UNCHANGED <<users, watched, botVars>>

StartJob(t) ==
    /\ \E temp \in Temperatures : StartJobWith(t, temp)
    /\ UNCHANGED extVars

\* The job queue starts the job when the bot comes up and then every
\* TickPeriod minutes, or later.
check_and_send_reminders ==
    \E t \in now..((now \div 1440) * 1440 + LastMinute) :
        /\ rem_status = "none" \/ t - now >= TickPeriod
        /\ StartJob(t)
        /\ UNCHANGED watched_sends

\* The next start of the job is on the following day.
check_and_send_reminders_next_day ==
    \E m \in FirstMinute..LastMinute :
        /\ now \div 1440 < MaxDay
        /\ StartJob((now \div 1440 + 1) * 1440 + m)
        /\ watched_sends' = 0

\* After send_reminder: the rest of the times of the same user, then the
\* rest of the users.
AfterSend(temp) ==
    LET k == next_due(json_loads(existing_schedule[1].reminder_times),
                      ti + 1, local_now[1])
    IN IF k > 0
       THEN /\ ti' = k
            /\ await_enabled' = users[batch[bi].user_id].notifications_enabled
            /\ UNCHANGED <<daily_schedule, batch, bi, local_now,
                           existing_schedule, rem_pc, rem_status, left_out,
                           last_call, first_found>>
       ELSE RemResume(user_loop(daily_schedule, batch, bi + 1, now, temp),
                      batch)

\* The entry being sent: <<user, index in the schedule>>
Entry == <<batch[bi].user_id, ti>>

\* send_reminder: await context.bot.send_message(...) returns.
send_reminder_returns ==
    /\ rem_pc = "await_send"
    /\ watched_sends' = IF Entry = watched THEN Min(2, watched_sends + 1)
                        ELSE watched_sends
    /\ \E temp \in Temperatures : AfterSend(temp)
    /\ UNCHANGED <<now, users, watched, botVars, extVars>>

\* send_reminder: await context.bot.send_message(...) raises and the
\* except clause of send_reminder logs it.
send_reminder_raises ==
    /\ rem_pc = "await_send"
    /\ \E temp \in Temperatures : AfterSend(temp)
    /\ UNCHANGED <<now, users, watched, watched_sends,
                   botVars, extVars>>

\* handlers/notifications_handler.py: toggle_notifications between its
\* awaits, for the callback data notif_enable / notif_disable.
toggle_notifications(user_id, action) ==
    /\ action \in {"notif_enable", "notif_disable"}
    /\ users' = update_notifications_enabled(users, user_id,
                                             action = "notif_enable")
    /\ reenabled' =
          IF /\ action = "notif_enable"
             /\ user_id \in traced
             /\ user_id \in DOMAIN users
             /\ ~users[user_id].notifications_enabled
             /\ get_user_local_time(users[user_id].timezone, now) # None
          THEN LET today == get_user_local_time(users[user_id].timezone,
                                                now)[1].date
               IN IF get_daily_schedule(daily_schedule, user_id, today) # None
                  THEN reenabled \cup {<<user_id, today>>}
                  ELSE reenabled
          ELSE reenabled
    /\ UNCHANGED <<now, daily_schedule, rem_pc, batch, bi, local_now,
                   existing_schedule, ti, rem_status,
                   left_out, last_call, first_found, await_enabled, watched,
                   watched_sends, botVars, traced, water_logs, achievements, conv_state, context_user_data, fn_args,
                   fn_result, second_run>>

\* The clock of the reminder job is read when the job starts: the minutes
\* FirstMinute..LastMinute (UTC) of the days 0..MaxDay.  A send_message call
\* ends within the minute in which it began.

\* The profiles that registration (confirm_save) stores: the time zone is a
\* button value or free text that contains "/", the window is "HH:MM" text.
Profile(user_id, tz, start, end, city) ==
    [user_id |-> user_id, weight |-> 33, gender |-> "female",
     activity_level |-> "low", timezone |-> tz,
     notification_start |-> start, notification_end |-> end,
     city |-> city, notifications_enabled |-> TRUE]

Profiles(user_id) ==
    IF user_id % 2 = 1
    THEN { Profile(user_id, "UTC", FormatTime(8, 0), FormatTime(8, 6), Some("Moscow")),
           Profile(user_id, "Mars/Phobos", FormatTime(8, 0), FormatTime(8, 6), None) }
    ELSE { Profile(user_id, "Europe/Moscow", FormatTime(11, 0), FormatTime(11, 6), None) }

BotIdle ==
    /\ User = <<>>
    /\ notification_schedule = <<>>
    /\ next_id = 1
    /\ job_pc = "idle"
    /\ pending = <<>>
    /\ pos = 1
    /\ last_run = -1
    /\ sends = <<>>
    /\ raised = {}
    /\ run_sent = {}
    /\ skipped = {}

InitRem ==
    /\ now = FirstMinute
    /\ users \in {f \in [UserIds -> UNION {Profiles(u) : u \in UserIds}] :
                    \A u \in UserIds : f[u].user_id = u}
    /\ watched \in UserIds \X (1..MaxWatched)
    /\ RemIdle
    /\ BotIdle
    /\ ExtIdle

NextRem ==
    \/ check_and_send_reminders
    \/ send_reminder_returns
    \/ send_reminder_raises
    \/ \E u \in UserIds, a \in {"notif_enable", "notif_disable"} :
          toggle_notifications(u, a)
    \/ check_and_send_reminders_next_day

SpecRem == InitRem /\ [][NextRem]_vars

\* ------------------------------------------------------------------------
\* Properties of check_and_send_reminders
\* ------------------------------------------------------------------------

\* C1: an entry (user, local date, scheduled time) of a stored daily
\* schedule is successfully delivered at most once, over any sequence of
\* ticks.  watched_sends counts the successful deliveries of the entry
\* `watched` on the current date.
C1_AtMostOnce == watched_sends <= 1

\* C3: when the processing of one user raises, the tick still processes
\* every remaining user of the batch: no invocation ends with users of its
\* batch left out.
C3_FailureIsolated ==
    rem_status \in {"done", "aborted"} => left_out = {}

\* C4: get_user_local_time never fails, and for a name the time zone
\* database does not know it gives the UTC time.  last_call is the latest
\* call the job made.
C4_NeverFails ==
    last_call # None =>
        LET tz == last_call[1].timezone
        IN /\ ~last_call[1].raised
           /\ get_user_local_time(tz, now) # None
           /\ tz \notin DOMAIN ZoneTable =>
                  get_user_local_time(tz, now) = Some(LocalTime(now, 0))

\* C5: when the first tick that finds a user without a schedule for a local
\* date runs more than 5 minutes after the window start, a schedule for
\* that date is stored by that tick or a later one of the same date: once
\* the date is over the schedule exists.
C5_GeneratedLate ==
    \A e \in first_found :
        (/\ e[3]
         /\ get_user_local_time(users[e[1]].timezone, now) # None
         /\ get_user_local_time(users[e[1]].timezone, now)[1].date > e[2])
        => get_daily_schedule(daily_schedule, e[1], e[2]) # None

\* C10: once notifications_enabled = false is stored for a user, no
\* delivery to that user is started, also not by a tick that was suspended
\* at an await when the handler ran.  await_enabled is the stored value at
\* the moment the delivery in progress was started.
C10_NoDeliveryAfterDisable ==
    rem_pc = "await_send" => await_enabled

\* ------------------------------------------------------------------------
\* database/db_manager.py on its own: the daily_schedule table
\* ------------------------------------------------------------------------

MaxRows == 3

\* The goals and the reminder times that a caller passes.
GoalValues == {1000, 1250}
TimesValues == {<<FormatTime(8, 0)>>, <<FormatTime(8, 0), FormatTime(8, 6)>>}

\* DatabaseManager().save_daily_schedule(user_id, date_local, goal_ml,
\* reminder_times) is called.
db_save_daily_schedule ==
    \E user_id \in UserIds, date_local \in 0..MaxDay,
       goal_ml \in GoalValues, reminder_times \in TimesValues :
        /\ Len(daily_schedule) < MaxRows
        /\ daily_schedule' = save_daily_schedule(daily_schedule, user_id,
                                 date_local, goal_ml, reminder_times)
        /\ fn_args' = Some([user_id |-> user_id, date_local |-> date_local,
                            goal_ml |-> goal_ml,
                            reminder_times |-> reminder_times])
        /\ fn_result' = None
        /\ UNCHANGED <<now, botVars, users, rem_pc, batch, bi, local_now,
                       existing_schedule, ti, rem_status, left_out, last_call,
                       first_found, await_enabled, watched, watched_sends,
                       traced, reenabled, water_logs, achievements, conv_state, context_user_data, second_run>>

\* DatabaseManager().get_daily_schedule is called with the key of the
\* latest save.
db_get_daily_schedule ==
    /\ fn_args # None
    /\ fn_result = None
    /\ fn_result' = Some(get_daily_schedule(daily_schedule, fn_args[1].user_id,
                                            fn_args[1].date_local))
    /\ UNCHANGED <<now, botVars, remVars, traced, reenabled, water_logs, achievements, conv_state, context_user_data,
                   fn_args, second_run>>

InitDb ==
    /\ now = 0
    /\ users = <<>>
    /\ watched = <<1, 1>>
    /\ RemIdle
    /\ BotIdle
    /\ ExtIdle

NextDb ==
    \/ db_save_daily_schedule
    \/ db_get_daily_schedule

SpecDb == InitDb /\ [][NextDb]_vars

\* C12: save_daily_schedule is an upsert: get_daily_schedule for the key of
\* the latest save returns the goal and the times of that save.
C12_SaveIsUpsert ==
    fn_result # None =>
        /\ fn_result[1] # None
        /\ fn_result[1][1].goal_ml = fn_args[1].goal_ml
        /\ json_loads(fn_result[1][1].reminder_times) = fn_args[1].reminder_times

\* ------------------------------------------------------------------------
\* The handlers that store the notification window
\* ------------------------------------------------------------------------

\* The "HH:MM" texts a user types.
TimeTexts == {FormatTime(8, 0), FormatTime(12, 0), FormatTime(22, 0)}

\* registration_handler._validate_time_format
validate_time_format(time_str) ==
    /\ 0 <= SplitTime(time_str)[1] /\ SplitTime(time_str)[1] <= 23
    /\ 0 <= SplitTime(time_str)[2] /\ SplitTime(time_str)[2] <= 59

\* DatabaseManager.save_user: INSERT OR REPLACE of the row
save_user(tbl, user_data) ==
    [u \in DOMAIN tbl \cup {user_data.user_id} |->
        IF u = user_data.user_id THEN user_data ELSE tbl[u]]

\* DatabaseManager.update_user_field: UPDATE users SET field = value
update_user_field(tbl, user_id, field, value) ==
    IF user_id \in DOMAIN tbl
    THEN [tbl EXCEPT ![user_id][field] = value]
    ELSE tbl

\* database.update_user(user_id, key=value): an attribute the User model
\* does not have is skipped (hasattr).
update_user_attr(tbl, user_id, key, value) ==
    IF user_id \in DOMAIN tbl /\ key \in DOMAIN tbl[user_id]
    THEN [tbl EXCEPT ![user_id][key] = value]
    ELSE tbl

\* Registration: notif_time_start_input (the button "standard_time", or a
\* text), notif_time_end_input (a text) and then confirm_save.
confirm_save(user_id) ==
    \E standard \in BOOLEAN, start_text \in TimeTexts, end_text \in TimeTexts :
        LET notification_start == IF standard THEN FormatTime(8, 0)
                                  ELSE start_text
            notification_end == IF standard THEN FormatTime(22, 0)
                                ELSE end_text
        IN /\ validate_time_format(start_text)
           /\ validate_time_format(end_text)
           /\ users' = save_user(users, Profile(user_id, "UTC",
                                   notification_start, notification_end, None))
           /\ UNCHANGED <<now, botVars, daily_schedule, rem_pc, batch, bi,
                          local_now, existing_schedule, ti, rem_status,
                          left_out, last_call, first_found, await_enabled,
                          watched, watched_sends, extVars>>

\* The texts profile_handler accepts: five characters with a ":".
EditTexts == TimeTexts \cup {FormatTime(25, 0)}

\* profile_handler: save_notifications keeps the start text, and
\* save_notifications_end stores both texts.
save_notifications_end(user_id) ==
    \E start_time \in EditTexts, end_time \in EditTexts :
        /\ users' = update_user_field(
                        update_user_field(users, user_id,
                                          "notification_start", start_time),
                        user_id, "notification_end", end_time)
        /\ UNCHANGED <<now, botVars, daily_schedule, rem_pc, batch, bi,
                       local_now, existing_schedule, ti, rem_status,
                       left_out, last_call, first_found, await_enabled,
                       watched, watched_sends, extVars>>

\* bot.py cb_notif_minute up to its first await: update_user with
\* notification_start_minutes or notification_end_minutes, then
\* reschedule_smart_notifications.
cb_notif_minute(user_id) ==
    \E time_type \in {"start", "end"}, hour \in {8, 22}, minute \in {0, 45} :
        LET total_minutes == hour * 60 + minute
            tbl == IF time_type = "start"
                   THEN update_user_attr(User, user_id,
                            "notification_start_minutes", total_minutes)
                   ELSE update_user_attr(User, user_id,
                            "notification_end_minutes", total_minutes)
        IN /\ next_id + NewRows(tbl, user_id, now) <= MaxNotifications + 1
           /\ User' = tbl
           /\ notification_schedule' =
                reschedule_smart_notifications(notification_schedule, tbl,
                                               next_id, user_id, now)
           /\ next_id' = next_id + NewRows(tbl, user_id, now)
           /\ sends' = [n \in 1..(next_id' - 1) |->
                           IF n \in DOMAIN sends THEN sends[n] ELSE 0]
           /\ UNCHANGED <<now, job_pc, pending, pos, last_run, raised,
                          run_sent, skipped, remVars, extVars>>

\* models.User: the columns notification_start and notification_end are
\* hours, with the defaults 8 and 22.
InitProfile ==
    /\ now = 0
    /\ users = <<>>
    /\ watched = <<1, 1>>
    /\ RemIdle
    /\ ExtIdle
    /\ User = [u \in BotUserIds |-> [notifications_enabled |-> TRUE,
                                     notification_start |-> 8,
                                     notification_end |-> 22]]
    /\ notification_schedule = <<>>
    /\ next_id = 1
    /\ job_pc = "idle"
    /\ pending = <<>>
    /\ pos = 1
    /\ last_run = -1
    /\ sends = <<>>
    /\ raised = {}
    /\ run_sent = {}
    /\ skipped = {}

NextProfile ==
    \/ \E u \in UserIds : confirm_save(u)
    \/ \E u \in UserIds : save_notifications_end(u)
    \/ \E u \in BotUserIds : cb_notif_minute(u)

SpecProfile == InitProfile /\ [][NextProfile]_vars

\* Minutes from midnight of a "HH:MM" text
MinuteOfDay(hm) == SplitTime(hm)[1] * 60 + SplitTime(hm)[2]

\* C18: in every stored user profile the notification window start is
\* strictly earlier than the window end.
C18_StartBeforeEnd ==
    /\ \A u \in DOMAIN users :
          MinuteOfDay(users[u].notification_start)
              < MinuteOfDay(users[u].notification_end)
    /\ \A u \in DOMAIN User :
          User[u].notification_start < User[u].notification_end

\* ------------------------------------------------------------------------
\* services/water_calculator.py on its own: calculate_norm
\* ------------------------------------------------------------------------

\* weight_input and save_weight accept an int from 30 to 200.
MinWeight == 30
MaxWeight == 200

\* activity_input and save_activity store one of these.
ActivityLevels == {"low", "medium", "high"}

\* The temperatures of the weather service, in whole degrees.
MinTemperature == 19
MaxTemperature == 56
NormTemperatures == {None} \cup {Some(t) : t \in MinTemperature..MaxTemperature}

\* calculate_norm(user_data, temperature) returns.
apply_calculate_norm ==
    /\ fn_args # None
    /\ fn_result = None
    /\ fn_result' = Some(calculate_norm(fn_args[1].weight, fn_args[1].gender,
                                        fn_args[1].activity_level,
                                        fn_args[1].temperature))
    /\ UNCHANGED <<now, botVars, remVars, traced, reenabled, water_logs, achievements, conv_state, context_user_data,
                   fn_args, second_run>>

InitNorm ==
    /\ now = 0
    /\ users = <<>>
    /\ watched = <<1, 1>>
    /\ RemIdle
    /\ BotIdle
    /\ traced = {}
    /\ reenabled = {}
    /\ water_logs = <<>>
    /\ achievements = <<>>
    /\ conv_state = "END"
    /\ context_user_data = <<>>
    /\ second_run = NoRun
    /\ fn_args \in {Some(a) : a \in [weight : MinWeight..MaxWeight,
                                     gender : {"male", "female"},
                                     activity_level : ActivityLevels,
                                     temperature : NormTemperatures]}
    /\ fn_result = None

NextNorm == apply_calculate_norm

SpecNorm == InitNorm /\ [][NextNorm]_vars

\* C19: for weight 70, male, activity level medium as the handlers store
\* it, and no temperature, calculate_norm returns 2750.
C19_ScenarioA ==
    (/\ fn_result # None
     /\ fn_args[1] = [weight |-> 70, gender |-> "male",
                      activity_level |-> "medium", temperature |-> None])
    => fn_result[1] = 2750

\* The norm before rounding is UnroundedNum / 10000 as an exact fraction:
\* weight * 30 * gender_coef * activity_coef * (1 + bonus_percent / 100).
UnroundedNum(a) ==
    a.weight * 30 * (IF a.gender = "male" THEN 11 ELSE 10)
        * ActivityMap(a.activity_level) * (100 + BonusPercent(a.temperature))

\* C20: the goal is a positive multiple of 250 that is at least the
\* unrounded norm and less than the unrounded norm plus 250.
C20_GoalRounding ==
    fn_result # None =>
        /\ fn_result[1] > 0
        /\ fn_result[1] % 250 = 0
        /\ fn_result[1] * 10000 >= UnroundedNum(fn_args[1])
        /\ fn_result[1] * 10000 < UnroundedNum(fn_args[1]) + 250 * 10000

\* ------------------------------------------------------------------------
\* check_and_send_reminders for the users of one household, with the
\* switching back on recorded
\* ------------------------------------------------------------------------

NumDayUsers == 1
DayUserIds == 1..NumDayUsers

\* Profiles with a window of six minutes and, for user 1, of one minute.
DayProfiles(user_id) ==
    IF user_id = 1
    THEN { Profile(user_id, "UTC", FormatTime(8, 0), FormatTime(8, 6), Some("Moscow")),
           Profile(user_id, "UTC", FormatTime(8, 0), FormatTime(8, 1), None) }
    ELSE { Profile(user_id, "UTC", FormatTime(8, 0), FormatTime(8, 6), None) }

InitDay ==
    /\ now = FirstMinute
    /\ users \in {f \in [DayUserIds -> UNION {DayProfiles(u) : u \in DayUserIds}] :
                    \A u \in DayUserIds : f[u].user_id = u}
    /\ watched = <<1, 1>>
    /\ RemIdle
    /\ BotIdle
    /\ traced = {1}
    /\ reenabled = {}
    /\ water_logs = <<>>
    /\ achievements = <<>>
    /\ conv_state = "END"
    /\ context_user_data = <<>>
    /\ second_run = NoRun
    /\ fn_args = None
    /\ fn_result = None

SpecDay == InitDay /\ [][NextRem]_vars

\* The times of the schedule in use, and the one being sent
Times == json_loads(existing_schedule[1].reminder_times)

\* send_reminder: which message is built for scheduled_time
message_kind(scheduled_time, all_times) ==
    IF scheduled_time = all_times[1] THEN "morning"
    ELSE IF scheduled_time = all_times[Len(all_times)] THEN "evening"
    ELSE "plain"

\* C11: after a user is switched off and on again on one local date, the
\* schedule used for the rest of that date is generated at or after the
\* switching on: no delivery uses a schedule that was already stored then.
C11_FreshAfterReenable ==
    rem_pc = "await_send" =>
        <<batch[bi].user_id, local_now[1].date>> \notin reenabled

\* C15: in a schedule of at least two entries the first position is
\* delivered as the morning message, the last as the evening summary and
\* every other position as a plain reminder.
C15_KindByPosition ==
    (rem_pc = "await_send" /\ Len(Times) >= 2) =>
        message_kind(Times[ti], Times) =
            IF ti = 1 THEN "morning"
            ELSE IF ti = Len(Times) THEN "evening"
            ELSE "plain"

MaxDrinks == 4

\* DatabaseManager.add_water_record: INSERT of one row with the user's
\* local date; nothing for a user that is not stored.  None stands for the
\* exception of pytz.timezone.
add_water_record(logs, tbl, user_id, ml, t) ==
    IF user_id \notin DOMAIN tbl THEN Some(logs)
    ELSE IF ZoneInfo(tbl[user_id].timezone) = None THEN None
    ELSE Some(Append(logs,
                     [user_id |-> user_id,
                      date |-> LocalTime(t, ZoneInfo(tbl[user_id].timezone)[1]).date,
                      ml |-> ml]))

\* SUM(ml) of the rows of a user and a date
RECURSIVE SumMl(_, _, _)
SumMl(logs, user_id, date) ==
    IF logs = <<>> THEN 0
    ELSE (IF Head(logs).user_id = user_id /\ Head(logs).date = date
          THEN Head(logs).ml ELSE 0) + SumMl(Tail(logs), user_id, date)

\* DatabaseManager.get_water_today
get_water_today(logs, tbl, user_id, t) ==
    IF user_id \notin DOMAIN tbl THEN Some(0)
    ELSE IF ZoneInfo(tbl[user_id].timezone) = None THEN None
    ELSE Some(SumMl(logs, user_id,
                    LocalTime(t, ZoneInfo(tbl[user_id].timezone)[1]).date))

\* handle_water_button between its awaits: the button "I drank (250 ml)".
handle_water_button(user_id) ==
    /\ Len(water_logs) < MaxDrinks
    /\ add_water_record(water_logs, users, user_id, 250, now) # None
    /\ water_logs' = add_water_record(water_logs, users, user_id, 250, now)[1]
    /\ UNCHANGED <<now, botVars, remVars, traced, reenabled, achievements, conv_state, context_user_data,
                   fn_args, fn_result, second_run>>

NextDrink ==
    \/ NextRem
    \/ \E u \in DayUserIds : handle_water_button(u)

SpecDrink == InitDay /\ [][NextDrink]_vars

\* C14: an intermediate reminder (neither the first nor the last entry) is
\* not sent to a user whose intake of the local date has reached the goal
\* of the schedule.
C14_SuppressedWhenGoalMet ==
    (rem_pc = "await_send" /\ 1 < ti /\ ti < Len(Times)) =>
        get_water_today(water_logs, users, batch[bi].user_id, now)[1]
            < existing_schedule[1].goal_ml

\* ------------------------------------------------------------------------
\* jobs/reminder_job.py: two invocations of check_and_send_reminders at once
\* ------------------------------------------------------------------------

NumOverlapUsers == 2
OverlapUserIds == 1..NumOverlapUsers

OverlapProfiles(user_id) ==
    IF user_id % 2 = 1
    THEN { Profile(user_id, "UTC", FormatTime(8, 0), FormatTime(8, 6), None) }
    ELSE { Profile(user_id, "UTC", FormatTime(8, 5), FormatTime(8, 11), None) }

InitOverlap ==
    /\ now = FirstMinute
    /\ users \in {f \in [OverlapUserIds ->
                           UNION {OverlapProfiles(u) : u \in OverlapUserIds}] :
                    \A u \in OverlapUserIds : f[u].user_id = u}
    /\ watched = <<1, 1>>
    /\ RemIdle
    /\ BotIdle
    /\ ExtIdle

\* The <<user_id, date_local>> of the rows that ds2 has after those of ds
StoredKeys(ds, ds2) ==
    {<<ds2[n].user_id, ds2[n].date_local>> : n \in (Len(ds) + 1)..Len(ds2)}

\* The state the second invocation is left in by a run of the loops that
\* ended in r; seen are the keys it had stored before.
SecondResume(r, users_list, seen) ==
    LET stored == seen \cup (IF rem_pc = "await_send"
                             THEN StoredKeys(daily_schedule, r.ds) ELSE {})
    IN /\ daily_schedule' = r.ds
       /\ second_run' =
             IF r.status = "await_send"
             THEN [pc |-> "await_send", batch |-> users_list, bi |-> r.bi,
                   local_now |-> r.local_now,
                   existing_schedule |-> r.existing_schedule, ti |-> r.ti,
                   stored |-> stored]
             ELSE NoRun

\* The job queue starts check_and_send_reminders at clock value t while the
\* invocation before it is still suspended in send_message.
second_check_and_send_reminders ==
    \E t \in now..((now \div 1440) * 1440 + LastMinute) :
        /\ rem_pc = "await_send"
        /\ second_run.pc = "idle"
        /\ now' = t
        /\ LET users_list == get_all_users_with_notifications_enabled(users)
           IN \E temp \in Temperatures :
                 SecondResume(user_loop(daily_schedule, users_list, 1, t, temp),
                              users_list, {})
        /\ UNCHANGED <<users, rem_pc, batch, bi, local_now, existing_schedule,
                       ti, rem_status, left_out, last_call, first_found,
                       await_enabled, watched, watched_sends, botVars,
                       traced, reenabled, water_logs, achievements, conv_state, context_user_data, fn_args, fn_result>>

\* send_reminder of the second invocation: the awaited send_message ends
\* (it returns, or it raises and the except clause logs it); then the rest
\* of the times of the same user and the rest of the users.
second_send_reminder_ends ==
    /\ second_run.pc = "await_send"
    /\ LET k == next_due(json_loads(second_run.existing_schedule[1].reminder_times),
                         second_run.ti + 1, second_run.local_now[1])
       IN IF k > 0
          THEN /\ second_run' = [second_run EXCEPT !.ti = k]
               /\ UNCHANGED daily_schedule
          ELSE \E temp \in Temperatures :
                  SecondResume(user_loop(daily_schedule, second_run.batch,
                                         second_run.bi + 1, now, temp),
                               second_run.batch, second_run.stored)
    /\ UNCHANGED <<now, users, rem_pc, batch, bi, local_now, existing_schedule,
                   ti, rem_status, left_out, last_call, first_found,
                   await_enabled, watched, watched_sends, botVars,
                   traced, reenabled, water_logs, achievements, conv_state, context_user_data, fn_args, fn_result>>

\* A minute passes while send_message is awaited.
send_message_takes_time ==
    /\ rem_pc = "await_send" \/ second_run.pc = "await_send"
    /\ now % 1440 < LastMinute
    /\ now' = now + 1
    /\ UNCHANGED <<botVars, remVars, extVars>>

NextOverlap ==
    \/ check_and_send_reminders
    \/ send_reminder_returns
    \/ send_reminder_raises
    \/ second_check_and_send_reminders
    \/ second_send_reminder_ends
    \/ send_message_takes_time

SpecOverlap == InitOverlap /\ [][NextOverlap]_vars

\* C13: whatever the invocations of check_and_send_reminders do, two of
\* them overlapping at the awaits of send_message included, the
\* daily_schedule table never holds two rows with the same user_id and the
\* same date_local.
C13_AtMostOneRow ==
    \A m, n \in DOMAIN daily_schedule :
        (/\ daily_schedule[m].user_id = daily_schedule[n].user_id
         /\ daily_schedule[m].date_local = daily_schedule[n].date_local)
        => m = n

\* The first invocation, resumed, is sending to a user whose row of the
\* date was stored by the second invocation while the first was suspended.
C13_Witness ==
    /\ rem_pc = "await_send"
    /\ \E key \in second_run.stored :
          /\ batch[bi].user_id = key[1]
          /\ local_now[1].date = key[2]
          /\ get_daily_schedule(daily_schedule, key[1], key[2]) # None

\* ------------------------------------------------------------------------
\* jobs/reminder_job.py: ticks at most TickPeriod apart, around midnight
\* ------------------------------------------------------------------------

\* The clock runs from 23:49 of day 0 to 00:05 of day 1.
NightFirst == 1429
NightLast == 1445
NightEntries == 4

\* One user whose window ends shortly before midnight.
NightProfiles ==
    { Profile(1, "UTC", FormatTime(23, 50), FormatTime(23, 58), None),
      Profile(1, "UTC", FormatTime(23, 50), FormatTime(23, 59), None) }

InitNight ==
    /\ now = NightFirst
    /\ users \in {[u \in {1} |-> p] : p \in NightProfiles}
    /\ watched \in {1} \X (1..NightEntries)
    /\ RemIdle
    /\ BotIdle
    /\ ExtIdle

\* The job queue starts the job at the latest TickPeriod minutes after the
\* start before it; the first start is at the latest TickPeriod minutes
\* after the bot has come up.
check_and_send_reminders_in_time ==
    \E t \in now..Min(now + TickPeriod, NightLast) :
        /\ rem_status = "none" \/ t > now
        /\ StartJob(t)
        /\ UNCHANGED watched_sends

NextNight ==
    \/ check_and_send_reminders_in_time
    \/ send_reminder_returns

SpecNight == InitNight /\ [][NextNight]_vars

\* C16: with ticks at most 5 minutes apart, notifications enabled and every
\* send_message returning, each reminder time of a stored schedule that is
\* not before the generation (here: not before notification_start plus the
\* 5 minutes in which the schedule is generated) has been delivered at
\* least once when the local date of the schedule is over.
C16_EveryEntryDelivered ==
    \A n \in DOMAIN daily_schedule :
        LET row == daily_schedule[n]
            times == json_loads(row.reminder_times)
            user == users[row.user_id]
            local == get_user_local_time(user.timezone, now)[1]
        IN (/\ row.user_id = watched[1]
            /\ watched[2] \in DOMAIN times
            /\ time_diff([hour |-> SplitTime(times[watched[2]])[1],
                          minute |-> SplitTime(times[watched[2]])[2]],
                         user.notification_start) >= 5
            /\ rem_pc = "idle"
            /\ local.date > row.date_local)
           => watched_sends >= 1

\* ------------------------------------------------------------------------
\* jobs/reminder_job.py: the job alone, over the change of the date
\* ------------------------------------------------------------------------

NextDate ==
    \/ check_and_send_reminders
    \/ check_and_send_reminders_next_day
    \/ send_reminder_returns
    \/ send_reminder_raises

SpecDate == InitDay /\ [][NextDate]_vars

\* C21: for a fixed profile calculate_norm does not decrease when the
\* temperature rises by a degree; up to 20 degrees the goal is the goal
\* without weather and the bonus is 0; above 20 the bonus is 5 for each
\* full 5 degrees above 20, and it is never more than 30.
C21_GoalMonotone ==
    (fn_result # None /\ fn_args[1].temperature # None) =>
        LET a == fn_args[1]
            t == a.temperature[1]
            bonus == BonusPercent(a.temperature)
        IN /\ calculate_norm(a.weight, a.gender, a.activity_level, Some(t - 1))
                 <= fn_result[1]
           /\ t <= 20 =>
                 /\ bonus = 0
                 /\ fn_result[1] = calculate_norm(a.weight, a.gender,
                                                  a.activity_level, None)
           /\ t > 20 =>
                 bonus = (IF t >= 50 THEN 30 ELSE 5 * ((t - 20) \div 5))
           /\ bonus <= 30

\* A goal at 55 degrees or more, where 5 per full 5 degrees would be over
\* 30, that is above the goal of the same profile at 20 degrees.
C21_Witness ==
    /\ fn_result # None
    /\ fn_args[1].temperature # None
    /\ fn_args[1].temperature[1] >= 55
    /\ fn_result[1] > calculate_norm(fn_args[1].weight, fn_args[1].gender,
                                     fn_args[1].activity_level, Some(20))

\* ------------------------------------------------------------------------
\* generate_reminder_schedule as a function of its arguments

\* Window starts: a morning one and one whose window passes midnight.
GenStarts == {<<8, 0>>, <<23, 45>>}

\* Window ends are the start (a window of 24 hours for the generator), the
\* times up to MaxDuration minutes after it, and the end of the default
\* window 08:00-22:00.
MaxDuration == 30
DefaultEnd == <<22, 0>>

\* total_glasses from 0 to MaxGlasses.
MaxGlasses == 27

\* The time of day d minutes after the time s.
MinutesAfter(s, d) ==
    <<((s[1] * 60 + s[2] + d) % (24 * 60)) \div 60,
      ((s[1] * 60 + s[2] + d) % (24 * 60)) % 60>>

GenEnds(s) == {MinutesAfter(s, d) : d \in 0..MaxDuration} \cup {DefaultEnd}

\* generate_reminder_schedule(notification_start, notification_end,
\* total_glasses) returns.
apply_generate_reminder_schedule ==
    /\ fn_args # None
    /\ fn_result = None
    /\ fn_result' = Some(generate_reminder_schedule(
                            fn_args[1].notification_start,
                            fn_args[1].notification_end,
                            fn_args[1].total_glasses))
    /\ UNCHANGED <<now, botVars, remVars, traced, reenabled, water_logs, achievements, conv_state, context_user_data,
                   fn_args, second_run>>

InitGen ==
    /\ now = 0
    /\ users = <<>>
    /\ watched = <<1, 1>>
    /\ RemIdle
    /\ BotIdle
    /\ traced = {}
    /\ reenabled = {}
    /\ water_logs = <<>>
    /\ achievements = <<>>
    /\ conv_state = "END"
    /\ context_user_data = <<>>
    /\ second_run = NoRun
    /\ \E s \in GenStarts, n \in 0..MaxGlasses :
          \E e \in GenEnds(s) :
             fn_args = Some([notification_start |-> s,
                             notification_end |-> e,
                             total_glasses |-> n])
    /\ fn_result = None

NextGen == apply_generate_reminder_schedule

SpecGen == InitGen /\ [][NextGen]_vars

\* The length in minutes the generator takes the window to have.
WindowMinutes(a) ==
    IF MinuteOfDay(a.notification_end) <= MinuteOfDay(a.notification_start)
    THEN MinuteOfDay(a.notification_end) + 24 * 60
            - MinuteOfDay(a.notification_start)
    ELSE MinuteOfDay(a.notification_end) - MinuteOfDay(a.notification_start)

\* The generator's result as minutes after the window start, for a window
\* that does not pass midnight.
OffsetOf(a, entry) == MinuteOfDay(entry) - MinuteOfDay(a.notification_start)

\* C22: for a window with start earlier than end and 2 or more glasses
\* generate_reminder_schedule returns exactly total_glasses entries, the
\* first is the start time, the last is the end time, and the entries do
\* not decrease as times of day.
C22_Endpoints ==
    (/\ fn_result # None
     /\ MinuteOfDay(fn_args[1].notification_start)
            < MinuteOfDay(fn_args[1].notification_end)
     /\ fn_args[1].total_glasses >= 2)
    => LET a == fn_args[1]
           times == fn_result[1]
       IN /\ Len(times) = a.total_glasses
          /\ times[1] = a.notification_start
          /\ times[Len(times)] = a.notification_end
          /\ \A k \in 1..(Len(times) - 1) :
                MinuteOfDay(times[k]) <= MinuteOfDay(times[k + 1])

\* A window of 15 minutes with 23 glasses has been generated: more entries
\* than minutes, so some entries are equal.
C22_Witness ==
    /\ fn_result # None
    /\ fn_args[1] = [notification_start |-> <<8, 0>>,
                     notification_end |-> <<8, 15>>,
                     total_glasses |-> 23]
    /\ Len(fn_result[1]) = 23
    /\ \E k \in 1..22 : fn_result[1][k] = fn_result[1][k + 1]

\* C23 as stated: for start earlier than end and n >= 2 glasses, entry i
\* (from 0) is the start plus the exact fraction i * (end - start) / (n - 1)
\* rounded to an integer.
C23_EntryIsRoundedFraction ==
    (/\ fn_result # None
     /\ MinuteOfDay(fn_args[1].notification_start)
            < MinuteOfDay(fn_args[1].notification_end)
     /\ fn_args[1].total_glasses >= 2)
    => LET a == fn_args[1]
       IN \A k \in 1..Len(fn_result[1]) :
             OffsetOf(a, fn_result[1][k])
                = Round((k - 1) * WindowMinutes(a), a.total_glasses - 1)

\* C23: for start earlier than end and n >= 2 glasses, entry i (from 0) is
\* the start plus a whole number of minutes nearest to
\* i * (end - start) / (n - 1), either neighbour when that is exactly half
\* way; for 08:00-22:00 and 11 glasses the result is 08:00, 09:24, 10:48,
\* 12:12, 13:36, 15:00, 16:24, 17:48, 19:12, 20:36, 22:00; and two
\* consecutive entries are less than a minute nearer or further apart than
\* (end - start) / (n - 1).
C23_EvenSpacing ==
    (/\ fn_result # None
     /\ MinuteOfDay(fn_args[1].notification_start)
            < MinuteOfDay(fn_args[1].notification_end)
     /\ fn_args[1].total_glasses >= 2)
    => LET a == fn_args[1]
           times == fn_result[1]
           n1 == a.total_glasses - 1
           d == WindowMinutes(a)
       IN /\ \A k \in 1..Len(times) :
                /\ 2 * (n1 * OffsetOf(a, times[k]) - (k - 1) * d) <= n1
                /\ 2 * ((k - 1) * d - n1 * OffsetOf(a, times[k])) <= n1
          /\ \A k \in 1..(Len(times) - 1) :
                /\ n1 * (OffsetOf(a, times[k + 1]) - OffsetOf(a, times[k])) - d < n1
                /\ d - n1 * (OffsetOf(a, times[k + 1]) - OffsetOf(a, times[k])) < n1
          /\ (a = [notification_start |-> <<8, 0>>,
                   notification_end |-> DefaultEnd,
                   total_glasses |-> 11])
             => times = << <<8, 0>>, <<9, 24>>, <<10, 48>>, <<12, 12>>,
                           <<13, 36>>, <<15, 0>>, <<16, 24>>, <<17, 48>>,
                           <<19, 12>>, <<20, 36>>, <<22, 0>> >>

\* A schedule has been generated in which an entry lies exactly half way
\* between two minutes and is not the one the rounded fraction gives.
C23_Witness ==
    /\ fn_result # None
    /\ MinuteOfDay(fn_args[1].notification_start)
            < MinuteOfDay(fn_args[1].notification_end)
    /\ fn_args[1].total_glasses >= 2
    /\ \E k \in 1..Len(fn_result[1]) :
          /\ 2 * (((k - 1) * WindowMinutes(fn_args[1]))
                    % (fn_args[1].total_glasses - 1))
                = fn_args[1].total_glasses - 1
          /\ OffsetOf(fn_args[1], fn_result[1][k])
                # Round((k - 1) * WindowMinutes(fn_args[1]),
                        fn_args[1].total_glasses - 1)

\* C24: for total_glasses of 1 or less generate_reminder_schedule returns
\* the list of one entry, the start time, whatever the end time is.
C24_SingleGlass ==
    (fn_result # None /\ fn_args[1].total_glasses <= 1)
    => fn_result[1] = <<fn_args[1].notification_start>>

\* One glass has been generated for a window whose end is before its start.
C24_Witness ==
    /\ fn_result # None
    /\ fn_args[1].total_glasses = 1
    /\ MinuteOfDay(fn_args[1].notification_end)
            < MinuteOfDay(fn_args[1].notification_start)
    /\ fn_result[1] = <<fn_args[1].notification_start>>

\* C25: every row of daily_schedule has as many reminder times as the least
\* number of 250 ml glasses that hold its goal_ml, and at least one.
C25_GlassCount ==
    \A j \in 1..Len(daily_schedule) :
        LET n == Len(json_loads(daily_schedule[j].reminder_times))
            goal_ml == daily_schedule[j].goal_ml
        IN /\ n >= 1
           /\ 250 * n >= goal_ml
           /\ n = 1 \/ 250 * (n - 1) < goal_ml

\* The tick has stored a schedule of more than one glass.
C25_Witness ==
    \E j \in 1..Len(daily_schedule) :
        /\ daily_schedule[j].goal_ml >= 500
        /\ 250 * Len(json_loads(daily_schedule[j].reminder_times))
              = daily_schedule[j].goal_ml

\* ------------------------------------------------------------------------
\* handlers/profile_handler.py: a profile edit between the ticks
\* ------------------------------------------------------------------------

\* profile_handler.save_weight with an accepted text: update_user_field,
\* then the reply.
save_weight(user_id) ==
    \E weight \in {MinWeight, MaxWeight} :
        /\ users' = update_user_field(users, user_id, "weight", weight)
        /\ UNCHANGED <<now, botVars, daily_schedule, rem_pc, batch, bi,
                       local_now, existing_schedule, ti, rem_status,
                       left_out, last_call, first_found, await_enabled,
                       watched, watched_sends, extVars>>

NextEdit ==
    \/ NextDate
    \/ \E u \in DayUserIds : save_weight(u)

SpecEdit == InitDay /\ [][NextEdit]_vars

\* The goals calculate_norm can give for a profile, over the weather
\* readings.
GoalsOf(user) ==
    {calculate_norm(user.weight, user.gender, user.activity_level,
                    get_current_temp(user.city, temp)) : temp \in Temperatures}

\* The rows of daily_schedule of a user for the local date at clock value t.
RowsOfToday(ds, tbl, user_id, t) ==
    {j \in 1..Len(ds) :
        /\ ds[j].user_id = user_id
        /\ get_user_local_time(tbl[user_id].timezone, t) # None
        /\ ds[j].date_local
              = get_user_local_time(tbl[user_id].timezone, t)[1].date}

\* C26: when a handler has changed the weight of a user, the schedule
\* stored for the user's local date has been regenerated by the end of
\* the handler: its goal is one calculate_norm gives for the new weight.
C26_RescheduledOnChange ==
    [][\A u \in DayUserIds :
          users'[u].weight # users[u].weight =>
              \A j \in RowsOfToday(daily_schedule', users', u, now') :
                  daily_schedule'[j].goal_ml \in GoalsOf(users'[u])]_vars

\* ------------------------------------------------------------------------
\* calculate_norm and generate_reminder_schedule computed again for the
\* same profile, window and temperature while the clock runs
\* ------------------------------------------------------------------------

\* The windows of the profiles: one just after midnight, and the default.
RegenWindows == {<< <<0, 2>>, <<0, 12>> >>, << <<8, 0>>, DefaultEnd >>}

\* The goal and the times for the arguments a, as the tick computes them.
Regenerated(a) ==
    [goal_ml |-> calculate_norm(a.weight, a.gender, a.activity_level,
                                a.temperature),
     reminder_times |->
        generate_reminder_schedule(a.notification_start, a.notification_end,
            glass_count(calculate_norm(a.weight, a.gender, a.activity_level,
                                       a.temperature))),
     at |-> now]

\* The goal and the times are computed, at most twice.
regenerate ==
    /\ fn_args # None
    /\ Len(fn_result) < 2
    /\ fn_result' = Append(fn_result, Regenerated(fn_args[1]))
    /\ UNCHANGED <<now, botVars, remVars, traced, reenabled, water_logs, achievements, conv_state, context_user_data,
                   fn_args, second_run>>

InitRegen ==
    /\ now = 0
    /\ users = <<>>
    /\ watched = <<1, 1>>
    /\ RemIdle
    /\ BotIdle
    /\ traced = {}
    /\ reenabled = {}
    /\ water_logs = <<>>
    /\ achievements = <<>>
    /\ conv_state = "END"
    /\ context_user_data = <<>>
    /\ second_run = NoRun
    /\ \E weight \in {MinWeight, 70, MaxWeight}, gender \in {"male", "female"},
          activity_level \in ActivityLevels,
          temperature \in {None, Some(MaxTemperature)},
          window \in RegenWindows :
          fn_args = Some([weight |-> weight, gender |-> gender,
                          activity_level |-> activity_level,
                          temperature |-> temperature,
                          notification_start |-> window[1],
                          notification_end |-> window[2]])
    /\ fn_result = None

NextRegen ==
    \/ regenerate
    \/ minute_passes

SpecRegen == InitRegen /\ [][NextRegen]_vars

check_and_send_reminders_lookup ==
    \E t \in now..((now \div 1440) * 1440 + LastMinute), temp \in Temperatures :
        /\ rem_status = "none" \/ t - now >= TickPeriod
        /\ StartJobWith(t, temp)
        /\ fn_args' = Some(temp)
        /\ UNCHANGED <<watched_sends, traced, reenabled, water_logs, achievements, conv_state, context_user_data,
                       fn_result, second_run>>

NextWeather ==
    \/ check_and_send_reminders_lookup
    \/ send_reminder_returns
    \/ send_reminder_raises

SpecWeather == InitDay /\ [][NextWeather]_vars

\* The first user of the run that starts in this step is due for
\* generation: no schedule of the local date, and the window start is 0 to
\* 5 minutes back.
GenerationDue ==
    LET users_list == get_all_users_with_notifications_enabled(users)
    IN /\ rem_pc = "idle"
       /\ users_list # <<>>
       /\ get_user_local_time(users_list[1].timezone, now') # None
       /\ LET local == get_user_local_time(users_list[1].timezone, now')[1]
          IN /\ get_daily_schedule(daily_schedule, users_list[1].user_id,
                                   local.date) = None
             /\ 0 <= time_diff(local, users_list[1].notification_start)
             /\ time_diff(local, users_list[1].notification_start) <= 5

RECURSIVE job_loop_faults_abort(_, _, _, _, _, _)
job_loop_faults_abort(ns, tbl, pend, i, t, failing) ==
    IF i > Len(pend)
    THEN [ns |-> ns, pos |-> i, skipped |-> {}, entered |-> <<>>]
    ELSE LET notif == pend[i]
             user == get_user(tbl, notif.user_id)
         IN IF notif.id \in failing
            THEN [ns |-> ns, pos |-> Len(pend) + 1, skipped |-> {},
                  entered |-> <<notif.id>>]
            ELSE IF user = None \/ ~user[1].notifications_enabled
            THEN LET r == job_loop_faults_abort(
                            mark_notification_sent(ns, notif.id, t),
                            tbl, pend, i + 1, t, failing)
                 IN [r EXCEPT !.skipped = @ \cup {notif.id},
                              !.entered = <<notif.id>> \o @]
            ELSE [ns |-> ns, pos |-> i, skipped |-> {},
                  entered |-> <<notif.id>>]

\* job_loop where, for the rows with an id in failing, a statement before
\* the await raises (get_user, the mark of a skipped row, json.loads or
\* format of the text): "except Exception" logs it, nothing is stored for
\* the row, and the loop goes on.  entered lists the ids whose loop body
\* was entered.
RECURSIVE job_loop_faults(_, _, _, _, _, _)
job_loop_faults(ns, tbl, pend, i, t, failing) ==
    IF i > Len(pend)
    THEN [ns |-> ns, pos |-> i, skipped |-> {}, entered |-> <<>>]
    ELSE LET notif == pend[i]
             user == get_user(tbl, notif.user_id)
         IN IF notif.id \in failing
            THEN LET r == job_loop_faults(ns, tbl, pend, i + 1, t, failing)
                 IN [r EXCEPT !.entered = <<notif.id>> \o @]
            ELSE IF user = None \/ ~user[1].notifications_enabled
            THEN LET r == job_loop_faults(
                            mark_notification_sent(ns, notif.id, t),
                            tbl, pend, i + 1, t, failing)
                 IN [r EXCEPT !.skipped = @ \cup {notif.id},
                              !.entered = <<notif.id>> \o @]
            ELSE [ns |-> ns, pos |-> i, skipped |-> {},
                  entered |-> <<notif.id>>]

\* The ids of the rows of pend from position i on.
IdsFrom(pend, i) == {pend[k].id : k \in i..Len(pend)}

\* job_minute_check up to its first await; fn_result records the ids whose
\* loop body this run has entered.
job_minute_check_faults ==
    /\ job_pc = "idle"
    /\ now > last_run
    /\ last_run' = now
    /\ LET pend == Snapshot(notification_schedule,
                       get_pending_notifications(notification_schedule, now))
       IN \E failing \in SUBSET IdsFrom(pend, 1) :
             /\ pending' = pend
             /\ Resume(job_loop_faults(notification_schedule, User, pend, 1,
                                       now, failing), pend, {})
             /\ fn_result' = Some(job_loop_faults(notification_schedule, User,
                                      pend, 1, now, failing).entered)
    /\ UNCHANGED <<now, User, next_id, sends, raised, remVars, traced,
                   reenabled, water_logs, achievements, conv_state, context_user_data, fn_args, second_run>>

\* The rest of the loop after the await of send_message ended, the row
\* marked or not.
AfterMessage(ns, failing) ==
    /\ Resume(job_loop_faults(ns, User, pending, pos + 1, now, failing),
              pending, run_sent)
    /\ fn_result' = Some(fn_result[1] \o
            job_loop_faults(ns, User, pending, pos + 1, now, failing).entered)

\* send_message returns; mark_notification_sent stores the mark or raises.
send_message_returns_faults ==
    /\ job_pc = "await_send"
    /\ sends' = [sends EXCEPT ![pending[pos].id] = @ + 1]
    /\ \E failing \in SUBSET IdsFrom(pending, pos + 1), mark_raises \in BOOLEAN :
          AfterMessage(IF mark_raises THEN notification_schedule
                       ELSE mark_notification_sent(notification_schedule,
                                                   pending[pos].id, now),
                       failing)
    /\ UNCHANGED <<now, User, next_id, pending, last_run, raised, remVars,
                   traced, reenabled, water_logs, achievements, conv_state, context_user_data, fn_args, second_run>>

\* send_message raises.
send_message_raises_faults ==
    /\ job_pc = "await_send"
    /\ raised' = raised \cup {pending[pos].id}
    /\ \E failing \in SUBSET IdsFrom(pending, pos + 1) :
          AfterMessage(notification_schedule, failing)
    /\ UNCHANGED <<now, User, next_id, pending, last_run, sends, remVars,
                   traced, reenabled, water_logs, achievements, conv_state, context_user_data, fn_args, second_run>>

\* A minute passes, up to the minute after the last reminder instant.
MaxBatchNow == 3

minute_passes_early ==
    /\ now < MaxBatchNow
    /\ now' = now + 1
    /\ UNCHANGED <<botVars, remVars, extVars>>

\* The users of the batch.
NumBatchUsers == 1
BatchUserIds == 1..NumBatchUsers

InitBatch ==
    /\ now = 0
    /\ users = <<>>
    /\ watched = <<1, 1>>
    /\ RemIdle
    /\ ExtIdle
    /\ User = [u \in BatchUserIds |-> [notifications_enabled |-> TRUE]]
    /\ notification_schedule = <<>>
    /\ next_id = 1
    /\ job_pc = "idle"
    /\ pending = <<>>
    /\ pos = 1
    /\ last_run = -1
    /\ sends = <<>>
    /\ raised = {}
    /\ run_sent = {}
    /\ skipped = {}

NextBatch ==
    \/ job_minute_check_faults
    \/ send_message_returns_faults
    \/ send_message_raises_faults
    \/ \E u \in BatchUserIds : cb_toggle_notifications(u)
    \/ \E u \in BatchUserIds : profile_changed(u)
    \/ minute_passes_early

SpecBatch == InitBatch /\ [][NextBatch]_vars

\* C29: whatever raises in the loop body of job_minute_check, the run
\* enters the loop body for every row of its pending batch, in the order of
\* the batch and once each: up to the row being sent while the run is
\* suspended in send_message, and for all rows when the run is over.
C29_EveryRowAttemptedOnce ==
    fn_result # None =>
        /\ fn_result[1] = [k \in 1..Min(pos, Len(pending)) |-> pending[k].id]
        /\ \A j, k \in 1..Len(pending) :
              pending[j].id = pending[k].id => j = k

\* A run is over in which the first row raised before its send_message and
\* the send_message of the second row raised.
C29_Witness ==
    /\ fn_result # None
    /\ job_pc = "idle"
    /\ Len(pending) >= 2
    /\ pending[1].id \notin run_sent \cup skipped
    /\ pending[2].id \in raised
    /\ Len(fn_result[1]) = Len(pending)

\* ------------------------------------------------------------------------
\* bot.py: job_daily_reset, run every hour from the start of the bot
\* ------------------------------------------------------------------------

\* config.STREAK_RESET_HOUR, and the interval of the job in minutes
\* (run_repeating(job_daily_reset, interval=3600, first=10)).
STREAK_RESET_HOUR == 6
ResetInterval == 60

\* The users of the table, and the last clock value of a run.
NumResetUsers == 1
ResetUserIds == 1..NumResetUsers
MaxResetNow == 2940

\* The time zones stored for a user: none, a zone, a text that is no zone.
ResetZones == {None, Some("Europe/Moscow"), Some("Mars/Phobos")}

\* "tz = ZoneInfo(user.timezone or "UTC")"
UserZone(user) ==
    ZoneInfo(IF user.timezone = None THEN "UTC" ELSE user.timezone[1])

\* The for-loop of job_daily_reset over the users with the ids of the
\* sequence ids, at clock value t: the table, the id counter and the set of
\* users for whom reschedule_smart_notifications was called.  An unknown
\* zone raises, which the except clause in the loop logs.
RECURSIVE daily_reset_loop(_, _, _, _, _)
daily_reset_loop(ns, tbl, id, ids, t) ==
    IF ids = <<>> THEN [ns |-> ns, next_id |-> id, called |-> {}]
    ELSE LET user == tbl[Head(ids)]
             tz == UserZone(user)
             due == /\ tz # None
                    /\ LocalTime(t, tz[1]).hour = STREAK_RESET_HOUR
                    /\ LocalTime(t, tz[1]).minute < 5
         IN IF due
            THEN LET r == daily_reset_loop(
                            reschedule_smart_notifications(ns, tbl, id,
                                                           Head(ids), t),
                            tbl, id + NewRows(tbl, Head(ids), t),
                            Tail(ids), t)
                 IN [r EXCEPT !.called = @ \cup {Head(ids)}]
            ELSE daily_reset_loop(ns, tbl, id, Tail(ids), t)

\* A run of job_daily_reset: the first when the bot has come up, the next
\* ResetInterval minutes after the one before.  fn_result records the
\* calls of reschedule_smart_notifications as <<user, local date, clock>>.
job_daily_reset ==
    LET t == IF last_run = -1 THEN now ELSE last_run + ResetInterval
        enabled == SortedSeq({u \in DOMAIN User : User[u].notifications_enabled})
        r == daily_reset_loop(notification_schedule, User, next_id, enabled, t)
    IN /\ t <= MaxResetNow
       /\ now' = t
       /\ last_run' = t
       /\ notification_schedule' = r.ns
       /\ next_id' = r.next_id
       /\ fn_result' = Some(fn_result[1] \cup
              {<<u, LocalTime(t, UserZone(User[u])[1]).date, t>> : u \in r.called})
       /\ UNCHANGED <<User, job_pc, pending, pos, sends, raised, run_sent,
                      skipped, remVars, traced, reenabled, water_logs, achievements, conv_state, context_user_data,
                      fn_args, second_run>>

\* The bot comes up at any minute of the first hour; fn_args keeps it.
InitReset ==
    /\ now \in 0..(ResetInterval - 1)
    /\ users = <<>>
    /\ watched = <<1, 1>>
    /\ RemIdle
    /\ User \in [ResetUserIds -> [notifications_enabled : BOOLEAN,
                                  timezone : ResetZones]]
    /\ notification_schedule = <<>>
    /\ next_id = 1
    /\ job_pc = "idle"
    /\ pending = <<>>
    /\ pos = 1
    /\ last_run = -1
    /\ sends = <<>>
    /\ raised = {}
    /\ run_sent = {}
    /\ skipped = {}
    /\ traced = {}
    /\ reenabled = {}
    /\ water_logs = <<>>
    /\ achievements = <<>>
    /\ conv_state = "END"
    /\ context_user_data = <<>>
    /\ second_run = NoRun
    /\ fn_args = Some(now)
    /\ fn_result = Some({})

NextReset == job_daily_reset

SpecReset == InitReset /\ [][NextReset]_vars

\* The calls recorded for a user and a local date.
ResetCalls(u, date) == {c \in fn_result[1] : c[1] = u /\ c[2] = date}

\* C30: for every user with notifications enabled and a known time zone,
\* and every local date whose reset hour began after the bot came up and
\* is over at the last run, reschedule_smart_notifications was called for
\* the user on that date once, and never more than once on any date.
C30_ResetOncePerDay ==
    \A u \in DOMAIN User :
        (User[u].notifications_enabled /\ UserZone(User[u]) # None) =>
            LET offset == UserZone(User[u])[1]
            IN \A date \in 0..(MaxResetNow \div 1440 + 1) :
                  /\ Cardinality(ResetCalls(u, date)) <= 1
                  /\ (/\ last_run # -1
                      /\ fn_args[1] + offset
                            <= date * 1440 + STREAK_RESET_HOUR * 60
                      /\ now + offset
                            >= date * 1440 + (STREAK_RESET_HOUR + 1) * 60)
                     => ResetCalls(u, date) # {}

\* ------------------------------------------------------------------------
\* database.py: the water log, the streak and the achievements of bot.py
\* ------------------------------------------------------------------------

\* config.MIN_DAILY_WATER_ML, MAX_DAILY_WATER_ML and the goal of a user
\* that has no weight stored
MIN_DAILY_WATER_ML == 1000
MAX_DAILY_WATER_ML == 5000
DefaultNorm == 2000

DrinkTypes == {"water", "tea", "coffee", "juice", "soda"}

\* config.DRINK_COEFFICIENTS as floats; DRINK_COEFFICIENTS.get(t, 1.0)
DRINK_COEFFICIENTS(drink_type) ==
    IF drink_type = "tea" THEN FDivInt(FFromInt(9), 10)
    ELSE IF drink_type = "coffee" THEN FDivInt(FFromInt(8), 10)
    ELSE IF drink_type = "juice" THEN FDivInt(FFromInt(7), 10)
    ELSE IF drink_type = "soda" THEN FDivInt(FFromInt(5), 10)
    ELSE FFromInt(1)

\* int(volume_ml * coefficient), volume_ml > 0
effective_ml(volume_ml, drink_type) ==
    FTrunc(FMul(FFromInt(volume_ml), DRINK_COEFFICIENTS(drink_type)))

\* date.today() at clock value t
Today(t) == LocalTime(t, 0).date

\* add_water_log with the volume poured taken as the effective volume
add_water_log_volume(logs, tbl, user_id, volume_ml, drink_type, t) ==
    [logs |-> Append(logs, [user_id |-> user_id,
                            volume_ml |-> volume_ml,
                            effective_ml |-> volume_ml,
                            drink_type |-> drink_type,
                            logged_date |-> Today(t)]),
     tbl |-> IF user_id \in DOMAIN tbl
             THEN [tbl EXCEPT
                     ![user_id].total_water_ml = @ + volume_ml,
                     ![user_id].last_water_at = Some(t),
                     ![user_id].last_active_date = Some(Today(t))]
             ELSE tbl]

\* database.add_water_log: one row more, and the statistics of the user if
\* there is one.  The result is the two tables.
add_water_log(logs, tbl, user_id, volume_ml, drink_type, t) ==
    [logs |-> Append(logs, [user_id |-> user_id,
                            volume_ml |-> volume_ml,
                            effective_ml |-> effective_ml(volume_ml, drink_type),
                            drink_type |-> drink_type,
                            logged_date |-> Today(t)]),
     tbl |-> IF user_id \in DOMAIN tbl
             THEN [tbl EXCEPT
                     ![user_id].total_water_ml =
                         @ + effective_ml(volume_ml, drink_type),
                     ![user_id].last_water_at = Some(t),
                     ![user_id].last_active_date = Some(Today(t))]
             ELSE tbl]

\* SUM(effective_ml) of the rows that satisfy the filter of a query
RECURSIVE SumEffective(_, _, _)
SumEffective(logs, user_id, dates) ==
    IF logs = <<>> THEN 0
    ELSE (IF Head(logs).user_id = user_id /\ Head(logs).logged_date \in dates
          THEN Head(logs).effective_ml ELSE 0)
         + SumEffective(Tail(logs), user_id, dates)

\* database.get_today_total
get_today_total(logs, user_id, t) == SumEffective(logs, user_id, {Today(t)})

\* Sequence without its element at position i
RemoveAt(s, i) == SubSeq(s, 1, i - 1) \o SubSeq(s, i + 1, Len(s))

\* ORDER BY logged_at DESC ... first(): the position of the user's newest
\* row, 0 when there is none
LastLogOf(logs, user_id) ==
    LET mine == {i \in 1..Len(logs) : logs[i].user_id = user_id}
    IN IF mine = {} THEN 0 ELSE CHOOSE i \in mine : \A j \in mine : j <= i

\* delete_last_log that leaves the user's total as it was
delete_last_log_row_only(logs, tbl, user_id) ==
    IF LastLogOf(logs, user_id) = 0 THEN [logs |-> logs, tbl |-> tbl]
    ELSE [logs |-> RemoveAt(logs, LastLogOf(logs, user_id)), tbl |-> tbl]

\* database.delete_last_log
delete_last_log(logs, tbl, user_id) ==
    IF LastLogOf(logs, user_id) = 0 THEN [logs |-> logs, tbl |-> tbl]
    ELSE [logs |-> RemoveAt(logs, LastLogOf(logs, user_id)),
          tbl |-> IF user_id \in DOMAIN tbl
                  THEN [tbl EXCEPT ![user_id].total_water_ml =
                          Max(0, @ - logs[LastLogOf(logs, user_id)].effective_ml)]
                  ELSE tbl]

\* database.update_streak(user_id, reached_goal)
update_streak(tbl, user_id, reached_goal, t) ==
    IF user_id \notin DOMAIN tbl \/ ~reached_goal THEN tbl
    ELSE LET user == tbl[user_id]
             today == Today(t)
             yesterday == today - 1
             streak ==
                IF user.last_active_date = Some(yesterday)
                   \/ user.last_active_date = Some(today)
                THEN (IF user.last_active_date # Some(today)
                      THEN user.current_streak + 1
                      ELSE user.current_streak)
                ELSE 1
         IN [tbl EXCEPT ![user_id].current_streak = streak,
                        ![user_id].longest_streak = Max(@, streak),
                        ![user_id].last_active_date = Some(today)]

\* services.calculate_water_norm(...).final_norm at the default temperature
\* of 20.0: no weather bonus, int(base_norm * (1 + 0 / 100)) is base_norm.
calculate_water_norm(weight, gender, activity_level, activity_mode) ==
    LET gender_k == IF gender = "male" THEN FDivInt(FFromInt(11), 10)
                    ELSE FFromInt(1)
        activity_k == IF activity_level = "low" THEN FFromInt(1)
                      ELSE IF activity_level = "high"
                      THEN FDivInt(FFromInt(12), 10)
                      ELSE FDivInt(FFromInt(11), 10)
        base_norm == FTrunc(FMul(FMul(FFromInt(weight * 30), gender_k),
                                 activity_k))
        mode_k == IF activity_mode = "workout" THEN FDivInt(FFromInt(13), 10)
                  ELSE IF activity_mode = "vacation"
                  THEN FDivInt(FFromInt(8), 10)
                  ELSE FFromInt(1)
        mode_adjusted == FTrunc(FMul(FFromInt(base_norm), mode_k))
    IN Max(MIN_DAILY_WATER_ML, Min(mode_adjusted, MAX_DAILY_WATER_ML))

\* services.get_user_daily_norm(user_id); weight is None or Some(kg)
get_user_daily_norm(tbl, user_id) ==
    IF user_id \notin DOMAIN tbl \/ tbl[user_id].weight = None
    THEN DefaultNorm
    ELSE calculate_water_norm(tbl[user_id].weight[1], tbl[user_id].gender,
                              tbl[user_id].activity_level,
                              tbl[user_id].activity_mode)

\* The achievement types of config.ACHIEVEMENTS that are modelled: one of
\* each family that check_all_achievements goes through.
AchievementTypes ==
    {"streak_3", "volume_5l", "early_bird", "exact_norm", "over_110",
     "first_day"}

\* ACHIEVEMENTS.get(achievement_type, {}).get("xp", 0)
AchievementXp(achievement_type) ==
    IF achievement_type = "streak_3" THEN 30
    ELSE IF achievement_type = "volume_5l" THEN 25
    ELSE IF achievement_type = "early_bird" THEN 75
    ELSE IF achievement_type = "exact_norm" THEN 150
    ELSE IF achievement_type = "over_110" THEN 50
    ELSE IF achievement_type = "first_day" THEN 50
    ELSE 0

\* database.has_achievement
has_achievement(ach, user_id, achievement_type) ==
    \E i \in 1..Len(ach) : /\ ach[i].user_id = user_id
                           /\ ach[i].achievement_type = achievement_type

\* add_achievement without the has_achievement test at its head
add_achievement_again(ach, tbl, user_id, achievement_type) ==
    [ach |-> Append(ach, [user_id |-> user_id,
                          achievement_type |-> achievement_type]),
     tbl |-> IF user_id \in DOMAIN tbl
             THEN [tbl EXCEPT
                     ![user_id].xp = @ + AchievementXp(achievement_type),
                     ![user_id].level =
                         1 + ((tbl[user_id].xp + AchievementXp(achievement_type))
                              \div 100)]
             ELSE tbl]

\* database.add_achievement: the two tables afterwards
add_achievement(ach, tbl, user_id, achievement_type) ==
    IF has_achievement(ach, user_id, achievement_type)
    THEN [ach |-> ach, tbl |-> tbl]
    ELSE [ach |-> Append(ach, [user_id |-> user_id,
                               achievement_type |-> achievement_type]),
          tbl |-> IF user_id \in DOMAIN tbl
                  THEN [tbl EXCEPT
                          ![user_id].xp = @ + AchievementXp(achievement_type),
                          ![user_id].level =
                              1 + ((tbl[user_id].xp
                                    + AchievementXp(achievement_type)) \div 100)]
                  ELSE tbl]

\* add_achievement for each type of a list, in its order
RECURSIVE add_achievements(_, _, _, _)
add_achievements(ach, tbl, user_id, types) ==
    IF types = <<>> THEN [ach |-> ach, tbl |-> tbl]
    ELSE LET r == add_achievement(ach, tbl, user_id, Head(types))
         IN add_achievements(r.ach, r.tbl, user_id, Tail(types))

\* percent >= 110 for percent = (today_total / goal) * 100
Over110(today_total, goal) ==
    /\ today_total > 0
    /\ FTrunc(FMul(FDivInt(FFromInt(today_total), goal), FFromInt(100))) >= 110

\* AchievementService.check_all_achievements(user_id, volume_ml, drink_type):
\* the streak, volume, time, overachievement and special checks with one
\* threshold each; early is "datetime.now().hour < 8".
check_all_achievements(ach, tbl, logs, user_id, volume_ml, t, early) ==
    IF user_id \notin DOMAIN tbl THEN [ach |-> ach, tbl |-> tbl]
    ELSE LET today_total == get_today_total(logs, user_id, t)
             goal == get_user_daily_norm(tbl, user_id)
             diff == IF today_total >= goal THEN today_total - goal
                     ELSE goal - today_total
         IN add_achievements(ach, tbl, user_id,
              (IF tbl[user_id].current_streak >= 3
               THEN <<"streak_3">> ELSE <<>>)
              \o (IF tbl[user_id].total_water_ml + volume_ml >= 5000
                  THEN <<"volume_5l">> ELSE <<>>)
              \o (IF early THEN <<"early_bird">> ELSE <<>>)
              \o (IF diff <= 50 THEN <<"exact_norm">> ELSE <<>>)
              \o (IF Over110(today_total, goal) THEN <<"over_110">> ELSE <<>>)
              \o <<"first_day">>)

\* ------------------------------------------------------------------------
\* bot.py: cb_drink_type, the drink-logging flow
\* ------------------------------------------------------------------------

NumStreakUsers == 1
StreakUserIds == 1..NumStreakUsers
MaxLogs == 4
MaxStreakDay == 3

\* The drinks a user picks: a preset or a custom volume, and a drink type
Drinks == {<<500, "water">>, <<1000, "water">>, <<330, "juice">>}

\* cb_drink_type for data "drink_<type>", from get_user to update_streak:
\* no await in between gives the event loop to another handler.
cb_drink_type(user_id, volume, drink_type, early) ==
    /\ Len(water_logs) < MaxLogs
    /\ next_id + NewRows(User, user_id, now) <= MaxNotifications + 1
    /\ \E logged \in {add_water_log(water_logs, User, user_id, volume,
                                     drink_type, now)} :
       \E checked \in {check_all_achievements(achievements, logged.tbl,
                                              logged.logs, user_id, volume,
                                              now, early)} :
          /\ water_logs' = logged.logs
          /\ notification_schedule' =
                reschedule_smart_notifications(notification_schedule,
                                               logged.tbl, next_id, user_id,
                                               now)
          /\ achievements' = checked.ach
          /\ User' = IF get_today_total(logged.logs, user_id, now)
                        >= get_user_daily_norm(checked.tbl, user_id)
                     THEN update_streak(checked.tbl, user_id, TRUE, now)
                     ELSE checked.tbl
    /\ next_id' = next_id + NewRows(User, user_id, now)
    /\ sends' = [n \in 1..(next_id' - 1) |->
                    IF n \in DOMAIN sends THEN sends[n] ELSE 0]
    /\ UNCHANGED <<now, job_pc, pending, pos, last_run, raised, run_sent,
                   skipped, remVars, traced, reenabled, conv_state,
                   context_user_data, fn_args, fn_result, second_run>>

\* The next day begins.
day_passes ==
    /\ Today(now) < MaxStreakDay
    /\ now' = now + 1440
    /\ UNCHANGED <<botVars, remVars, extVars>>

\* A user as create_user and the registration leave it: no drink logged.
NewUser(user_id) ==
    [weight |-> Some(33), gender |-> "female", activity_level |-> "low",
     activity_mode |-> "normal", notifications_enabled |-> TRUE,
     total_water_ml |-> 0, last_water_at |-> None, last_active_date |-> None,
     current_streak |-> 0, longest_streak |-> 0, xp |-> 0, level |-> 1]

InitStreak ==
    /\ now = 1440
    /\ users = <<>>
    /\ watched = <<1, 1>>
    /\ RemIdle
    /\ User = [u \in StreakUserIds |-> NewUser(u)]
    /\ notification_schedule = <<>>
    /\ next_id = 1
    /\ job_pc = "idle"
    /\ pending = <<>>
    /\ pos = 1
    /\ last_run = -1
    /\ sends = <<>>
    /\ raised = {}
    /\ run_sent = {}
    /\ skipped = {}
    /\ ExtIdle

NextStreak ==
    \/ \E u \in StreakUserIds, d \in Drinks, early \in BOOLEAN :
            cb_drink_type(u, d[1], d[2], early)
    \/ day_passes

SpecStreak == InitStreak /\ [][NextStreak]_vars

\* C31: when cb_drink_type logs a drink that brings today's total to the
\* goal or above and the user's previous active date was yesterday, the
\* handler leaves current_streak one higher than it was; a drink logged
\* after the goal was reached that day leaves current_streak as it is.
C31_StreakContinues ==
    [][\A u \in StreakUserIds :
          (/\ Len(water_logs') = Len(water_logs) + 1
           /\ water_logs'[Len(water_logs')].user_id = u)
          => /\ (/\ get_today_total(water_logs', u, now)
                      >= get_user_daily_norm(User, u)
                 /\ User[u].last_active_date = Some(Today(now) - 1))
                => User'[u].current_streak = User[u].current_streak + 1
             /\ (get_today_total(water_logs, u, now)
                      >= get_user_daily_norm(User, u))
                => User'[u].current_streak = User[u].current_streak]_vars

\* ------------------------------------------------------------------------
\* jobs/reminder_job.py: the run that generates a schedule
\* ------------------------------------------------------------------------

\* C32: a run of check_and_send_reminders that stores a schedule stores one
\* only, and is then awaiting send_reminder for the first entry of that
\* schedule, which is the window start of the user.
C32_FirstSentWithGeneration ==
    [][Len(daily_schedule') > Len(daily_schedule) =>
          LET row == daily_schedule'[Len(daily_schedule')]
          IN /\ Len(daily_schedule') = Len(daily_schedule) + 1
             /\ rem_pc' = "await_send"
             /\ batch'[bi'].user_id = row.user_id
             /\ existing_schedule' # None
             /\ existing_schedule'[1].reminder_times = row.reminder_times
             /\ ti' = 1
             /\ SplitTime(json_loads(row.reminder_times)[1])
                   = SplitTime(users[row.user_id].notification_start)]_vars

\* The job generated a schedule some minutes after the window start and is
\* sending its first entry.
C32_Witness ==
    /\ rem_pc = "await_send"
    /\ ti = 1
    /\ daily_schedule # <<>>
    /\ daily_schedule[Len(daily_schedule)].user_id = batch[bi].user_id
    /\ daily_schedule[Len(daily_schedule)].date_local = local_now[1].date
    /\ existing_schedule[1].reminder_times
          = daily_schedule[Len(daily_schedule)].reminder_times
    /\ time_diff(local_now[1], batch[bi].notification_start) >= 2

\* ------------------------------------------------------------------------
\* generate_reminder_schedule for a window that passes midnight
\* ------------------------------------------------------------------------

\* The minutes from the window start to an entry, for d in 0..1439
MinutesSince(a, entry) ==
    (MinuteOfDay(entry) - MinuteOfDay(a.notification_start) + 24 * 60)
        % (24 * 60)

\* C33: for an end not later than the start and 2 or more glasses,
\* generate_reminder_schedule returns exactly total_glasses entries, the
\* first is the start time, the last is the end time, every entry is a time
\* of day from 00:00 to 23:59, and entry k lies, modulo 24 hours, at the
\* k-th even division of the window from start to end + 24 h, to the
\* nearest minute.
C33_Overnight ==
    (/\ fn_result # None
     /\ MinuteOfDay(fn_args[1].notification_end)
            <= MinuteOfDay(fn_args[1].notification_start)
     /\ fn_args[1].total_glasses >= 2)
    => LET a == fn_args[1]
           times == fn_result[1]
           n == a.total_glasses
           window == MinuteOfDay(a.notification_end) + 24 * 60
                        - MinuteOfDay(a.notification_start)
       IN /\ Len(times) = n
          /\ times[1] = a.notification_start
          /\ times[n] = a.notification_end
          /\ \A k \in 1..n :
                /\ times[k][1] \in 0..23
                /\ times[k][2] \in 0..59
                /\ \E d \in {MinutesSince(a, times[k]),
                             MinutesSince(a, times[k]) + 24 * 60} :
                      /\ 2 * (d * (n - 1) - (k - 1) * window) <= n - 1
                      /\ 2 * ((k - 1) * window - d * (n - 1)) <= n - 1

\* A window from 23:45 to 00:15 with 3 glasses has been generated: the
\* entries are 23:45, 00:00 and 00:15.
C33_Witness ==
    /\ fn_result # None
    /\ fn_args[1] = [notification_start |-> <<23, 45>>,
                     notification_end |-> <<0, 15>>,
                     total_glasses |-> 3]
    /\ fn_result[1] = << <<23, 45>>, <<0, 0>>, <<0, 15>> >>

\* ------------------------------------------------------------------------
\* database.py: add_water_log and delete_last_log called in any order
\* ------------------------------------------------------------------------

NumLedgerUsers == 2
LedgerUserIds == 1..NumLedgerUsers
MaxLedgerLogs == 2
MaxLedgerDay == 2

\* add_water_log(user_id, volume_ml, drink_type) returns.
apply_add_water_log(user_id, volume_ml, drink_type) ==
    /\ Len(water_logs) < MaxLedgerLogs
    /\ \E r \in {add_water_log(water_logs, User, user_id, volume_ml,
                               drink_type, now)} :
          /\ water_logs' = r.logs
          /\ User' = r.tbl
    /\ UNCHANGED <<now, notification_schedule, next_id, job_pc, pending, pos,
                   last_run, sends, raised, run_sent, skipped, remVars,
                   traced, reenabled, achievements, conv_state, context_user_data, fn_args, fn_result,
                   second_run>>

\* delete_last_log(user_id) returns.
apply_delete_last_log(user_id) ==
    /\ \E r \in {delete_last_log(water_logs, User, user_id)} :
          /\ water_logs' = r.logs
          /\ User' = r.tbl
    /\ UNCHANGED <<now, notification_schedule, next_id, job_pc, pending, pos,
                   last_run, sends, raised, run_sent, skipped, remVars,
                   traced, reenabled, achievements, conv_state, context_user_data, fn_args, fn_result,
                   second_run>>

\* The next day begins.
ledger_day_passes ==
    /\ Today(now) < MaxLedgerDay
    /\ now' = now + 1440
    /\ UNCHANGED <<botVars, remVars, extVars>>

InitLedger ==
    /\ now = 1440
    /\ users = <<>>
    /\ watched = <<1, 1>>
    /\ RemIdle
    /\ User = [u \in LedgerUserIds |-> NewUser(u)]
    /\ notification_schedule = <<>>
    /\ next_id = 1
    /\ job_pc = "idle"
    /\ pending = <<>>
    /\ pos = 1
    /\ last_run = -1
    /\ sends = <<>>
    /\ raised = {}
    /\ run_sent = {}
    /\ skipped = {}
    /\ ExtIdle

NextLedger ==
    \/ \E u \in LedgerUserIds, d \in Drinks : apply_add_water_log(u, d[1], d[2])
    \/ \E u \in LedgerUserIds : apply_delete_last_log(u)
    \/ ledger_day_passes

SpecLedger == InitLedger /\ [][NextLedger]_vars

\* C34: a call of add_water_log for a user raises get_today_total of that
\* user by int(volume_ml * coefficient) of the drink logged, and leaves
\* get_today_total of every other user as it was.
C34_TotalGrowsByEffective ==
    [][Len(water_logs') = Len(water_logs) + 1 =>
          LET log == water_logs'[Len(water_logs')]
          IN \A u \in LedgerUserIds :
                get_today_total(water_logs', u, now')
                   = get_today_total(water_logs, u, now)
                     + (IF u = log.user_id
                        THEN effective_ml(log.volume_ml, log.drink_type)
                        ELSE 0)]_vars

\* 330 ml of juice, which count for int(330 * 0.7) = 230 ml, have been
\* logged on the second day for a user, after a drink of another user the
\* day before.
C34_Witness ==
    /\ Today(now) = 2
    /\ Len(water_logs) = 2
    /\ water_logs[1].user_id = 2
    /\ water_logs[1].logged_date = 1
    /\ water_logs[2] = [user_id |-> 1, volume_ml |-> 330,
                        effective_ml |-> 230, drink_type |-> "juice",
                        logged_date |-> 2]
    /\ get_today_total(water_logs, 1, now) = 230
    /\ get_today_total(water_logs, 2, now) = 0

\* The sum of effective_ml over all rows of a user
LoggedTotal(logs, user_id) ==
    SumEffective(logs, user_id, {logs[i].logged_date : i \in 1..Len(logs)})

\* C35: total_water_ml of a user is the sum of effective_ml over the rows
\* of water_logs that the user has, and is not negative.
C35_LifetimeTotal ==
    \A u \in LedgerUserIds :
        /\ User[u].total_water_ml = LoggedTotal(water_logs, u)
        /\ User[u].total_water_ml >= 0

\* The newest row of a user, logged on the second day, has been deleted:
\* the row of the day before is left, next to a row of another user, and
\* the total is that of the row that is left.
C35_Witness ==
    /\ Len(water_logs) = 2
    /\ water_logs[1].user_id = 1
    /\ water_logs[1].logged_date = 1
    /\ water_logs[2].user_id = 2
    /\ User[1].last_water_at = Some(2 * 1440)
    /\ User[1].total_water_ml = water_logs[1].effective_ml
    /\ User[1].total_water_ml = 230

\* ------------------------------------------------------------------------
\* handlers/registration_handler.py: the registration conversation
\* ------------------------------------------------------------------------

\* The chat that registers.
RegUserId == 1

\* int(text) for a text given as its characters: the number for a text of
\* decimal digits, None for the ValueError of any other text modelled.
DigitValue(c) ==
    IF c = "0" THEN 0 ELSE IF c = "1" THEN 1 ELSE IF c = "2" THEN 2
    ELSE IF c = "3" THEN 3 ELSE IF c = "4" THEN 4 ELSE IF c = "5" THEN 5
    ELSE IF c = "6" THEN 6 ELSE IF c = "7" THEN 7 ELSE IF c = "8" THEN 8
    ELSE IF c = "9" THEN 9 ELSE -1

RECURSIVE DecimalValue(_, _)
DecimalValue(text, acc) ==
    IF text = <<>> THEN acc
    ELSE DecimalValue(Tail(text), 10 * acc + DigitValue(Head(text)))

ParseInt(text) ==
    IF text # <<>> /\ \A i \in 1..Len(text) : DigitValue(text[i]) >= 0
    THEN Some(DecimalValue(text, 0))
    ELSE None

\* What the user types for the weight and for the height
WeightTexts ==
    {<<"2", "9">>, <<"3", "0">>, <<"2", "0", "0">>, <<"2", "0", "1">>,
     <<"7", "0", ".", "5">>}
HeightTexts ==
    {<<"9", "9">>, <<"1", "0", "0">>, <<"2", "5", "0">>, <<"2", "5", "1">>,
     <<"x">>}

\* The callback data of the keyboards of the conversation
GenderData == {"gender_male", "gender_female"}
ActivityData == {"act_low", "act_medium", "act_high"}
TimezoneData == {"Europe/Moscow", "other_tz"}

\* "male" in query.data: both "gender_male" and "gender_female" hold it
ContainsMale(data) == data \in {"gender_male", "gender_female"}

\* activity_map.get(query.data, "medium")
activity_map(data) ==
    IF data = "act_low" THEN "low"
    ELSE IF data = "act_high" THEN "high"
    ELSE "medium"

\* The time zone texts a user types, with '"/" in text' and len(text) of
\* each
TimezoneTexts == {"Asia/Tomsk", "Tomsk", "/T"}
ContainsSlash(text) == text \in {"Asia/Tomsk", "/T"}
TextLen(text) == IF text = "/T" THEN 2 ELSE IF text = "Tomsk" THEN 5 ELSE 10

\* The texts typed for the window: TimeTexts and two that are no times
RegTimeTexts == {FormatTime(12, 0), FormatTime(22, 0), FormatTime(24, 0),
                 FormatTime(8, 60)}

\* The cities typed, and those validate_city accepts
CityTexts == {"Moscow", "Atlantis"}
validate_city(city) == city = "Moscow"

\* context.user_data[key] = value
SetItem(data, key, value) ==
    [k \in DOMAIN data \cup {key} |-> IF k = key THEN value ELSE data[k]]

\* What is common to the handlers: the state returned, the user_data left,
\* the handler and its input kept in fn_args, the tables untouched.
Handled(name, input, state, data) ==
    /\ conv_state' = state
    /\ context_user_data' = data
    /\ fn_args' = Some(<<name, input>>)
    /\ UNCHANGED <<now, botVars, remVars, traced, reenabled, water_logs,
                   achievements, fn_result, second_run>>

start_registration ==
    /\ conv_state = "END"
    /\ get_user(users, RegUserId) = None
    /\ Handled("start_registration", "start_reg", "WEIGHT", context_user_data)

\* weight_input that takes any number
weight_input_unchecked(text) ==
    /\ conv_state = "WEIGHT"
    /\ IF ParseInt(text) = None
       THEN Handled("weight_input", text, "WEIGHT", context_user_data)
       ELSE Handled("weight_input", text, "HEIGHT",
                    SetItem(context_user_data, "weight", ParseInt(text)[1]))

weight_input(text) ==
    /\ conv_state = "WEIGHT"
    /\ IF ParseInt(text) = None
       THEN Handled("weight_input", text, "WEIGHT", context_user_data)
       ELSE IF ~(30 <= ParseInt(text)[1] /\ ParseInt(text)[1] <= 200)
       THEN Handled("weight_input", text, "WEIGHT", context_user_data)
       ELSE Handled("weight_input", text, "HEIGHT",
                    SetItem(context_user_data, "weight", ParseInt(text)[1]))

height_input(text) ==
    /\ conv_state = "HEIGHT"
    /\ IF ParseInt(text) = None
       THEN Handled("height_input", text, "HEIGHT", context_user_data)
       ELSE IF ~(100 <= ParseInt(text)[1] /\ ParseInt(text)[1] <= 250)
       THEN Handled("height_input", text, "HEIGHT", context_user_data)
       ELSE Handled("height_input", text, "GENDER",
                    SetItem(context_user_data, "height", ParseInt(text)[1]))

gender_input(data) ==
    /\ conv_state = "GENDER"
    /\ Handled("gender_input", data, "ACTIVITY",
               SetItem(context_user_data, "gender",
                       IF ContainsMale(data) THEN "male" ELSE "female"))

activity_input(data) ==
    /\ conv_state = "ACTIVITY"
    /\ Handled("activity_input", data, "TIMEZONE",
               SetItem(context_user_data, "activity_level", activity_map(data)))

timezone_input(data) ==
    /\ conv_state = "TIMEZONE"
    /\ IF data = "other_tz"
       THEN Handled("timezone_input", data, "TIMEZONE_TEXT_INPUT",
                    context_user_data)
       ELSE Handled("timezone_input", data, "NOTIF_TIME_START",
                    SetItem(context_user_data, "timezone", data))

\* '"/" not in tz_input or len(tz_input) < 3'
timezone_text_input(text) ==
    /\ conv_state = "TIMEZONE_TEXT_INPUT"
    /\ IF ~ContainsSlash(text) \/ TextLen(text) < 3
       THEN Handled("timezone_text_input", text, "TIMEZONE_TEXT_INPUT",
                    context_user_data)
       ELSE Handled("timezone_text_input", text, "NOTIF_TIME_START",
                    SetItem(context_user_data, "timezone", text))

\* notif_time_start_input for the button "standard_time"
notif_time_start_input_button ==
    /\ conv_state = "NOTIF_TIME_START"
    /\ Handled("notif_time_start_input", "standard_time", "CITY",
               SetItem(SetItem(context_user_data, "notification_start",
                               FormatTime(8, 0)),
                       "notification_end", FormatTime(22, 0)))

\* notif_time_start_input for a text
notif_time_start_input(time_str) ==
    /\ conv_state = "NOTIF_TIME_START"
    /\ IF ~validate_time_format(time_str)
       THEN Handled("notif_time_start_input", time_str, "NOTIF_TIME_START",
                    context_user_data)
       ELSE Handled("notif_time_start_input", time_str, "NOTIF_TIME_END",
                    SetItem(context_user_data, "notification_start", time_str))

notif_time_end_input(time_str) ==
    /\ conv_state = "NOTIF_TIME_END"
    /\ IF ~validate_time_format(time_str)
       THEN Handled("notif_time_end_input", time_str, "NOTIF_TIME_END",
                    context_user_data)
       ELSE Handled("notif_time_end_input", time_str, "CITY",
                    SetItem(context_user_data, "notification_end", time_str))

city_input(city) ==
    /\ conv_state = "CITY"
    /\ IF ~validate_city(city)
       THEN Handled("city_input", city, "CITY", context_user_data)
       ELSE Handled("city_input", city, "CONFIRM",
                    SetItem(context_user_data, "city", Some(city)))

skip_city ==
    /\ conv_state = "CITY"
    /\ Handled("skip_city", "skip_city", "CONFIRM",
               SetItem(context_user_data, "city", None))

\* The row confirm_save builds from context.user_data
RegisteredRow(data) ==
    [user_id |-> RegUserId,
     weight |-> data["weight"],
     height |-> data["height"],
     gender |-> data["gender"],
     activity_level |-> data["activity_level"],
     timezone |-> data["timezone"],
     notification_start |-> data["notification_start"],
     notification_end |-> data["notification_end"],
     city |-> IF "city" \in DOMAIN data THEN data["city"] ELSE None,
     notifications_enabled |-> TRUE]

\* confirm_save of the conversation: db.save_user(user_data), then
\* context.user_data.clear()
confirm_save_collected ==
    /\ conv_state = "CONFIRM"
    /\ users' = save_user(users, RegisteredRow(context_user_data))
    /\ conv_state' = "END"
    /\ context_user_data' = <<>>
    /\ fn_args' = Some(<<"confirm_save", "confirm_save">>)
    /\ UNCHANGED <<now, botVars, daily_schedule, rem_pc, batch, bi, local_now,
                   existing_schedule, ti, rem_status, left_out, last_call,
                   first_found, await_enabled, watched, watched_sends,
                   traced, reenabled, water_logs, achievements, fn_result,
                   second_run>>

change_profile ==
    /\ conv_state = "CONFIRM"
    /\ Handled("change_profile", "change_profile", "WEIGHT",
               context_user_data)

\* cancel: context.user_data.clear() and the end of the conversation
cancel ==
    /\ conv_state # "END"
    /\ Handled("cancel", "cancel", "END", <<>>)

InitReg ==
    /\ now = 0
    /\ users = <<>>
    /\ watched = <<1, 1>>
    /\ RemIdle
    /\ BotIdle
    /\ ExtIdle

NextReg ==
    \/ start_registration
    \/ \E text \in WeightTexts : weight_input(text)
    \/ \E text \in HeightTexts : height_input(text)
    \/ \E data \in GenderData : gender_input(data)
    \/ \E data \in ActivityData : activity_input(data)
    \/ \E data \in TimezoneData : timezone_input(data)
    \/ \E text \in TimezoneTexts : timezone_text_input(text)
    \/ notif_time_start_input_button
    \/ \E time_str \in RegTimeTexts : notif_time_start_input(time_str)
    \/ \E time_str \in RegTimeTexts : notif_time_end_input(time_str)
    \/ \E city \in CityTexts : city_input(city)
    \/ skip_city
    \/ confirm_save_collected
    \/ change_profile
    \/ cancel

SpecReg == InitReg /\ [][NextReg]_vars

\* Everything confirm_save reads has been put into user_data by the steps
\* of the conversation, within the limits the steps set.
Collected(data) ==
    /\ {"weight", "height", "gender", "activity_level", "timezone",
        "notification_start", "notification_end"} \subseteq DOMAIN data
    /\ data["weight"] \in 30..200
    /\ data["height"] \in 100..250
    /\ data["gender"] \in {"male", "female"}
    /\ data["activity_level"] \in {"low", "medium", "high"}
    /\ validate_time_format(data["notification_start"])
    /\ validate_time_format(data["notification_end"])

\* The input is one the step of that handler refuses.
InvalidInput(name, input) ==
    \/ /\ name = "weight_input"
       /\ \/ ParseInt(input) = None
          \/ ParseInt(input)[1] \notin 30..200
    \/ /\ name = "height_input"
       /\ \/ ParseInt(input) = None
          \/ ParseInt(input)[1] \notin 100..250
    \/ /\ name = "timezone_text_input"
       /\ input \in {"Tomsk", "/T"}
    \/ /\ name \in {"notif_time_start_input", "notif_time_end_input"}
       /\ input # "standard_time"
       /\ ~(input[1] \in 0..23 /\ input[2] \in 0..59)
    \/ /\ name = "city_input"
       /\ ~validate_city(input)

\* C36: the users table is written only by confirm_save in state CONFIRM,
\* with the row made of user_data; the conversation is in state CONFIRM
\* only with weight (30..200), height (100..250), gender, activity level,
\* timezone, window start and window end in user_data; and a handler that
\* is given an input it refuses leaves the state, user_data and the table
\* as they were.
C36_RegistrationOrdering ==
    [][/\ users' # users
            => /\ conv_state = "CONFIRM"
               /\ fn_args' = Some(<<"confirm_save", "confirm_save">>)
               /\ users' = save_user(users, RegisteredRow(context_user_data))
       /\ conv_state' = "CONFIRM" => Collected(context_user_data')
       /\ (fn_args' # None /\ InvalidInput(fn_args'[1][1], fn_args'[1][2]))
            => /\ conv_state' = conv_state
               /\ context_user_data' = context_user_data
               /\ users' = users]_vars

\* A registration has been stored that went through the typed time zone,
\* the typed window and the city.
C36_Witness ==
    /\ conv_state = "END"
    /\ fn_args = Some(<<"confirm_save", "confirm_save">>)
    /\ get_user(users, RegUserId) # None
    /\ users[RegUserId].weight = 200
    /\ users[RegUserId].height = 100
    /\ users[RegUserId].timezone = "Asia/Tomsk"
    /\ users[RegUserId].notification_start = FormatTime(12, 0)
    /\ users[RegUserId].notification_end = FormatTime(22, 0)
    /\ users[RegUserId].city = Some("Moscow")

\* ------------------------------------------------------------------------
\* database.py: add_achievement called in any order
\* ------------------------------------------------------------------------

NumAwardUsers == 2
AwardUserIds == 1..NumAwardUsers
MaxAwards == 4

\* The types add_achievement is called with: 50, 75 and 150 XP
AwardTypes == {"first_day", "early_bird", "exact_norm"}

\* add_achievement(user_id, achievement_type) returns: fn_args keeps the
\* call, fn_result the row it returned or None.
apply_add_achievement(user_id, achievement_type) ==
    /\ \/ Len(achievements) < MaxAwards
       \/ has_achievement(achievements, user_id, achievement_type)
    /\ \E r \in {add_achievement(achievements, User, user_id,
                                 achievement_type)} :
          /\ achievements' = r.ach
          /\ User' = r.tbl
          /\ fn_result' = IF Len(r.ach) = Len(achievements) THEN None
                          ELSE Some(r.ach[Len(r.ach)])
    /\ fn_args' = Some(<<user_id, achievement_type>>)
    /\ UNCHANGED <<now, notification_schedule, next_id, job_pc, pending, pos,
                   last_run, sends, raised, run_sent, skipped, remVars,
                   traced, reenabled, water_logs, conv_state,
                   context_user_data, second_run>>

InitAward ==
    /\ now = 1440
    /\ users = <<>>
    /\ watched = <<1, 1>>
    /\ RemIdle
    /\ User = [u \in AwardUserIds |-> NewUser(u)]
    /\ notification_schedule = <<>>
    /\ next_id = 1
    /\ job_pc = "idle"
    /\ pending = <<>>
    /\ pos = 1
    /\ last_run = -1
    /\ sends = <<>>
    /\ raised = {}
    /\ run_sent = {}
    /\ skipped = {}
    /\ ExtIdle

NextAward ==
    \E u \in AwardUserIds, type \in AwardTypes : apply_add_achievement(u, type)

SpecAward == InitAward /\ [][NextAward]_vars

\* The types of which a user has a row, and the XP of a set of types
HeldTypes(ach, user_id) ==
    {ach[i].achievement_type :
        i \in {j \in 1..Len(ach) : ach[j].user_id = user_id}}

RECURSIVE XpOf(_)
XpOf(types) ==
    IF types = {} THEN 0
    ELSE LET type == CHOOSE x \in types : TRUE
         IN AchievementXp(type) + XpOf(types \ {type})

\* C37: a user has at most one row of the achievements table for each
\* achievement type, the user's xp is the sum of the XP of the types the
\* user holds, each counted once, and the user's level is 1 + xp // 100.
C37_AwardedOnce ==
    \A u \in AwardUserIds :
        /\ \A type \in AchievementTypes :
              Cardinality({i \in 1..Len(achievements) :
                              /\ achievements[i].user_id = u
                              /\ achievements[i].achievement_type = type}) <= 1
        /\ User[u].xp = XpOf(HeldTypes(achievements, u))
        /\ User[u].level = 1 + (User[u].xp \div 100)

\* add_achievement was called for a type the user holds and returned None:
\* the user has the three types, 275 XP and level 3, and another user has
\* one of the types.
C37_Witness ==
    /\ fn_args = Some(<<1, "exact_norm">>)
    /\ fn_result = None
    /\ HeldTypes(achievements, 1) = AwardTypes
    /\ HeldTypes(achievements, 2) # {}
    /\ Len(achievements) = 4
    /\ User[1].xp = 275
    /\ User[1].level = 3

====
